---- MODULE Spec2Model ----
(***************************************************************************)
(* Agentic-Honeypot-API: the credential rotator (GroqClientManager), the   *)
(* callback policy (should_trigger_callback / trigger_callback_if_needed), *)
(* the bounded cache (SimpleCache), and the session store with the         *)
(* honeypot turn that drives it.                                           *)
(*                                                                         *)
(* The specifications share the module's variables; each one moves only    *)
(* its own component and holds the others still:                           *)
(*   SpecRotator  threads calling get_client / get_client_with_retry       *)
(*   SpecPolicy   the callback policy applied to arbitrary sessions        *)
(*   SpecCache    get, set and clear calls on one SimpleCache              *)
(*   SpecMerge    the two merges of the extractor on pairs of pass results *)
(*   SpecExtract  calls of IntelligenceExtractor.extract, with its cache   *)
(*   SpecAccounts the bank-account rule of the regex pass on digit runs    *)
(*   Spec         honeypot turns served one after the other                *)
(*   SpecOutage   the same turns, the store client present or missing      *)
(*   SpecFinalize the turns and the manual finalize-session requests       *)
(*   SpecConversation  the turns of one conversation, one session id       *)
(*   SpecStore    workers calling the SessionManager concurrently          *)
(*   SpecExpiry   one worker calling the SessionManager while keys expire  *)
(***************************************************************************)
EXTENDS Integers, Sequences, FiniteSets, TLC

(***************************************************************************)
(* State                                                                   *)
(***************************************************************************)

\* GroqClientManager and the threads calling it
VARIABLES
    num_api_keys,   \* len(self.api_keys)
    clients,        \* keys of self.clients: indices whose Groq(...) succeeded
    current_index,  \* self.current_index
    lock,           \* holder of self.lock, NoThread when free
    tpc,            \* per thread: position in the code
    tkind,          \* per thread: the top-level call in progress
    tclient,        \* per thread: get_client's local `client`
    tleft,          \* per thread: iterations left of get_client_with_retry's loop
    tcalls,         \* per thread: get_client calls made by the top-level call
    tret,           \* per thread: what the last finished top-level call returned
    tdone,          \* per thread: which top-level call finished last
    started,        \* top-level calls started so far
    observed        \* cursor values read by get_client, in order

rotVars == <<num_api_keys, clients, current_index, lock, tpc, tkind, tclient,
             tleft, tcalls, tret, tdone, started, observed>>

\* the settings and one call of trigger_callback_if_needed
VARIABLES
    max_conversation_turns,  \* settings.max_conversation_turns
    pol_pc,         \* position in trigger_callback_if_needed
    pol_session,    \* its session_data argument
    pol_result,     \* what it returned
    pol_posts,      \* POST requests it made
    pol_outcome,    \* how the last POST ended
    payload         \* the body of the last POST

polVars == <<pol_pc, pol_session, pol_result, pol_posts, pol_outcome,
             payload>>

\* the key-value store and the requests served against it
VARIABLES
    store,          \* the key-value store: session id -> stored record
    now,            \* datetime.now(UTC), counted in create_session calls
    pc,             \* per request: position in honeypot_endpoint
    req,            \* per request: the HoneypotRequest
    session,        \* per request: the endpoint's local `session`
    op,             \* per request: the SessionManager mutation in progress
    engagement_metrics,  \* per request: result of get_metrics
    intelligence,   \* per request: result of get_intelligence
    updated_session,     \* per request: the session read for the callback
    resp,           \* per request: the response returned last
    ret,            \* per request: what the last direct mutation returned
    turns,          \* honeypot turns started
    ops,            \* direct SessionManager calls started
    accepted,       \* per key: add_message calls that returned True since create
    reported,       \* per key: reports the evaluator accepted since create
    ttl,            \* per key: remaining lifetime the store keeps (0: no key)
    idle,           \* per key: time since the last write (-1: never written)
    redis           \* self.redis: the client, or None when it was not built

sesVars == <<store, now, pc, req, session, op, engagement_metrics,
             intelligence, updated_session, resp, ret, turns, ops, accepted,
             reported, ttl, idle, redis>>

\* one SimpleCache and what its callers have seen of it
VARIABLES
    max_size,       \* self.max_size
    cache,          \* self.cache with self.access_count, in the dicts' order:
                    \* a sequence of [key, value, count]
    cache_ret,      \* what the last get returned
    hits,           \* per key: gets that hit it since it was last set
    set_log,        \* the keys of the set calls, in order
    gets,           \* get calls made
    clears,         \* clear calls made
    evicted         \* the last eviction: the entry, and the counts present then

cacheVars == <<max_size, cache, cache_ret, hits, set_log, gets, clears,
               evicted>>

\* the two merges of IntelligenceExtractor applied to a pair of pass results
VARIABLES
    merge_regex,    \* regex_intel, the argument
    merge_llm,      \* llm_intel, the argument
    merged,         \* what _merge_intelligence returned
    enhanced,       \* what _create_enhanced_intelligence returned
    simple          \* what enhanced.to_simple_format() returned

mergeVars == <<merge_regex, merge_llm, merged, enhanced, simple>>

\* IntelligenceExtractor.extract, one call at a time
VARIABLES
    ex_pc,          \* position in extract
    ex_message,     \* the argument
    cache_key,      \* generate_message_hash(message)
    cached_result,  \* what intelligence_cache.get returned
    regex_intel,    \* result of the regex pass
    llm_intel,      \* result of the LLM pass
    llm_outcome,    \* how the LLM pass ended
    final_intel,    \* the merged result
    ex_ret,         \* what extract returned
    ex_trace,       \* the steps of the call in progress, in order
    ex_calls,       \* calls of extract that have returned
    llm_failed_for  \* per cached key: its entry comes from a call whose LLM pass failed

exVars == <<ex_pc, ex_message, cache_key, cached_result, regex_intel,
            llm_intel, llm_outcome, final_intel, ex_ret, ex_trace, ex_calls,
            llm_failed_for>>

\* the bank-account rule of the regex pass applied to a message
VARIABLES
    digit_runs,     \* the message: the lengths of its standalone digit runs
    bank_accounts,  \* intel.bankAccounts after lines 55-57, as run lengths
    account_pc      \* "called" before the rule has run, "returned" after

accountVars == <<digit_runs, bank_accounts, account_pc>>

vars == <<rotVars, max_conversation_turns, polVars, sesVars, cacheVars,
          mergeVars, exVars, accountVars>>

\* what a step of one component leaves alone
rotFrame ==
    UNCHANGED <<max_conversation_turns, polVars, sesVars, cacheVars,
                mergeVars, exVars, accountVars>>
polFrame ==
    UNCHANGED <<rotVars, sesVars, cacheVars, mergeVars, exVars, accountVars>>
\* self.redis is assigned in SessionManager.__init__ only
sesFrame ==
    UNCHANGED <<rotVars, max_conversation_turns, polVars, cacheVars,
                mergeVars, exVars, accountVars, redis>>
cacheFrame ==
    UNCHANGED <<rotVars, max_conversation_turns, polVars, sesVars,
                mergeVars, exVars, accountVars>>
mergeFrame ==
    UNCHANGED <<rotVars, max_conversation_turns, polVars, sesVars,
                cacheVars, exVars, accountVars>>
\* extract moves its own variables and those of the cache it calls
exFrame ==
    UNCHANGED <<rotVars, max_conversation_turns, polVars, sesVars,
                mergeVars, accountVars>>
accountFrame ==
    UNCHANGED <<rotVars, max_conversation_turns, polVars, sesVars,
                cacheVars, mergeVars, exVars>>

\* Python's None where a client is expected
NoClient == -1

Min(a, b) == IF a <= b THEN a ELSE b

(***************************************************************************)
(* Credential rotator: app/utils/groq_manager.py                           *)
(***************************************************************************)

\* most API keys a deployment configures
MaxKeys == 3
\* number of threads calling into the shared manager
NumThreads == 2
\* most top-level calls (get_client or get_client_with_retry) in one run
MaxCalls == 3

Threads == 1..NumThreads
NoThread == 0


\* self.clients.get(j): the client built from key j, None when key j failed
ClientsGet(j) == IF j \in clients THEN j ELSE NoClient

\* len(self.clients)
ClientsLen == Cardinality(clients)

\* GroqClientManager.__init__: every configured key is tried, the ones whose
\* constructor raises are left out of self.clients; the cursor starts at 0.
GroqInit ==
    /\ num_api_keys \in 1..MaxKeys
    /\ clients \in SUBSET (0..(num_api_keys - 1))
    /\ current_index = 0
    /\ lock = NoThread
    /\ tpc = [t \in Threads |-> "idle"]
    /\ tkind = [t \in Threads |-> "none"]
    /\ tclient = [t \in Threads |-> NoClient]
    /\ tleft = [t \in Threads |-> 0]
    /\ tcalls = [t \in Threads |-> 0]
    /\ tret = [t \in Threads |-> NoClient]
    /\ tdone = [t \in Threads |-> "none"]
    /\ started = 0
    /\ observed = <<>>

\* get_client hands `value` back to its caller: the application for a plain
\* call, the loop of get_client_with_retry otherwise (which returns the
\* first client that is not None).
GetClientReturn(t, value) ==
    IF tkind[t] = "get_client" \/ value # NoClient
    THEN /\ tpc' = [tpc EXCEPT ![t] = "idle"]
         /\ tret' = [tret EXCEPT ![t] = value]
         /\ tdone' = [tdone EXCEPT ![t] = tkind[t]]
    ELSE /\ tpc' = [tpc EXCEPT ![t] = "retry_loop"]
         /\ UNCHANGED <<tret, tdone>>

\* a caller invokes get_client()
CallGetClient(t) ==
    /\ tpc[t] = "idle"
    /\ started < MaxCalls
    /\ started' = started + 1
    /\ tkind' = [tkind EXCEPT ![t] = "get_client"]
    /\ tcalls' = [tcalls EXCEPT ![t] = 1]
    /\ tpc' = [tpc EXCEPT ![t] = "gc_check"]
    /\ UNCHANGED <<num_api_keys, clients, current_index, lock, tclient, tleft,
                   tret, tdone, observed>>
    /\ rotFrame

\* get_client_with_retry(max_retries), lines 64-68: None on an empty pool,
\* else the loop runs min(max_retries, len(clients)) times.
CallGetClientWithRetry(t, max_retries) ==
    /\ tpc[t] = "idle"
    /\ started < MaxCalls
    /\ started' = started + 1
    /\ tkind' = [tkind EXCEPT ![t] = "get_client_with_retry"]
    /\ tcalls' = [tcalls EXCEPT ![t] = 0]
    /\ IF clients = {}
       THEN /\ tret' = [tret EXCEPT ![t] = NoClient]
            /\ tdone' = [tdone EXCEPT ![t] = "get_client_with_retry"]
            /\ UNCHANGED <<tpc, tleft>>
       ELSE /\ tleft' = [tleft EXCEPT ![t] =
                  Min(max_retries, ClientsLen)]
            /\ tpc' = [tpc EXCEPT ![t] = "retry_loop"]
            /\ UNCHANGED <<tret, tdone>>
    /\ UNCHANGED <<num_api_keys, clients, current_index, lock, tclient,
                   observed>>
    /\ rotFrame

\* get_client_with_retry, lines 70-75: one more get_client, or None when the
\* range is used up.
RetryLoop(t) ==
    /\ tpc[t] = "retry_loop"
    /\ IF tleft[t] = 0
       THEN /\ tpc' = [tpc EXCEPT ![t] = "idle"]
            /\ tret' = [tret EXCEPT ![t] = NoClient]
            /\ tdone' = [tdone EXCEPT ![t] = "get_client_with_retry"]
            /\ UNCHANGED <<tleft, tcalls>>
       ELSE /\ tleft' = [tleft EXCEPT ![t] = tleft[t] - 1]
            /\ tcalls' = [tcalls EXCEPT ![t] = tcalls[t] + 1]
            /\ tpc' = [tpc EXCEPT ![t] = "gc_check"]
            /\ UNCHANGED <<tret, tdone>>
    /\ UNCHANGED <<num_api_keys, clients, current_index, lock, tkind, tclient,
                   started, observed>>
    /\ rotFrame

\* get_client without its empty-pool guard
get_client_check_unguarded(t) ==
    /\ tpc[t] = "gc_check"
    /\ tpc' = [tpc EXCEPT ![t] = "gc_lock"]
    /\ UNCHANGED <<num_api_keys, clients, current_index, lock, tkind, tclient,
                   tleft, tcalls, tret, tdone, started, observed>>
    /\ rotFrame

\* get_client, lines 42-43: `if not self.clients: return None`, outside the lock
get_client_check(t) ==
    /\ tpc[t] = "gc_check"
    /\ IF clients = {}
       THEN GetClientReturn(t, NoClient)
       ELSE /\ tpc' = [tpc EXCEPT ![t] = "gc_lock"]
            /\ UNCHANGED <<tret, tdone>>
    /\ UNCHANGED <<num_api_keys, clients, current_index, lock, tkind, tclient,
                   tleft, tcalls, started, observed>>
    /\ rotFrame

\* entering the critical section without taking the lock
get_client_acquire_unlocked(t) ==
    /\ tpc[t] = "gc_lock"
    /\ lock' = t
    /\ tpc' = [tpc EXCEPT ![t] = "gc_read"]
    /\ UNCHANGED <<num_api_keys, clients, current_index, tkind, tclient, tleft,
                   tcalls, tret, tdone, started, observed>>
    /\ rotFrame

\* get_client, line 45: `with self.lock:` blocks until the lock is free
get_client_acquire(t) ==
    /\ tpc[t] = "gc_lock"
    /\ lock = NoThread
    /\ lock' = t
    /\ tpc' = [tpc EXCEPT ![t] = "gc_read"]
    /\ UNCHANGED <<num_api_keys, clients, current_index, tkind, tclient, tleft,
                   tcalls, tret, tdone, started, observed>>
    /\ rotFrame

\* get_client, line 47: client = self.clients.get(self.current_index)
get_client_read(t) ==
    /\ tpc[t] = "gc_read"
    /\ tclient' = [tclient EXCEPT ![t] = ClientsGet(current_index)]
    /\ observed' = Append(observed, current_index)
    /\ tpc' = [tpc EXCEPT ![t] = "gc_advance"]
    /\ UNCHANGED <<num_api_keys, clients, current_index, lock, tkind, tleft,
                   tcalls, tret, tdone, started>>
    /\ rotFrame

\* get_client, line 50: the cursor moves on, modulo len(self.clients); the
\* modulo raises ZeroDivisionError on an empty dict, which leaves the `with`.
get_client_advance(t) ==
    /\ tpc[t] = "gc_advance"
    /\ IF ClientsLen = 0
       THEN /\ tpc' = [tpc EXCEPT ![t] = "raised"]
            /\ lock' = IF lock = t THEN NoThread ELSE lock
            /\ UNCHANGED current_index
       ELSE /\ current_index' = (current_index + 1) % ClientsLen
            /\ tpc' = [tpc EXCEPT ![t] = "gc_release"]
            /\ UNCHANGED lock
    /\ UNCHANGED <<num_api_keys, clients, tkind, tclient, tleft, tcalls, tret,
                   tdone, started, observed>>
    /\ rotFrame

\* get_client, line 52: `return client` leaves the `with`, releasing the lock
get_client_release(t) ==
    /\ tpc[t] = "gc_release"
    /\ lock' = IF lock = t THEN NoThread ELSE lock
    /\ GetClientReturn(t, tclient[t])
    /\ UNCHANGED <<num_api_keys, clients, current_index, tkind, tclient, tleft,
                   tcalls, started, observed>>
    /\ rotFrame

\* get_client_with_retry(), lines 67-68: max_retries = None stands for
\* len(self.clients)
CallGetClientWithRetryDefault(t) == CallGetClientWithRetry(t, ClientsLen)

\* the max_retries arguments a caller passes explicitly
RetryArgs == 1..MaxKeys

RotNext ==
    \E t \in Threads :
        \/ CallGetClient(t)
        \/ \E m \in RetryArgs : CallGetClientWithRetry(t, m)
        \/ CallGetClientWithRetryDefault(t)
        \/ RetryLoop(t)
        \/ get_client_check(t)
        \/ get_client_acquire(t)
        \/ get_client_read(t)
        \/ get_client_advance(t)
        \/ get_client_release(t)

(***************************************************************************)
(* Sessions: app/services/session_manager.py                               *)
(***************************************************************************)

\* session ids in use
Keys == {"s1", "s2"}

\* an absent session: get_session's None
NoSession == [absent |-> TRUE]

\* the five intelligence categories, all empty (create_session, lines 73-79)
EmptyIntelligence ==
    [bankAccounts |-> {}, upiIds |-> {}, phishingLinks |-> {},
     phoneNumbers |-> {}, suspiciousKeywords |-> {}]

\* the record create_session builds (lines 67-82)
NewSession(session_id, start_time, scam_detected, scam_type) ==
    [session_id |-> session_id,
     start_time |-> start_time,
     scam_detected |-> scam_detected,
     scam_type |-> scam_type,
     conversation_history |-> <<>>,
     extracted_intelligence |-> EmptyIntelligence,
     message_count |-> 0,
     agent_notes |-> <<>>]

\* dict.update(data): the fields of data replace those of session_dict
DictUpdate(session_dict, data) ==
    [f \in DOMAIN session_dict |->
        IF f \in DOMAIN data THEN data[f] ELSE session_dict[f]]

\* add_message with the counter left as it was read
add_message_data_stale_count(sess, message) ==
    [conversation_history |-> Append(sess.conversation_history, message),
     message_count |-> sess.message_count]

\* add_message putting the message in front of the history
add_message_data_prepend(sess, message) ==
    [conversation_history |-> <<message>> \o sess.conversation_history,
     message_count |-> sess.message_count + 1]

\* add_message, lines 148-153: the message is appended to the history that
\* was read and the counter that was read is incremented; both go to
\* update_session.
add_message_data(sess, message) ==
    [conversation_history |-> Append(sess.conversation_history, message),
     message_count |-> sess.message_count + 1]

\* add_intelligence keeping only the incoming values
add_intelligence_data_latest(sess, intel) ==
    [extracted_intelligence |->
        [c \in DOMAIN EmptyIntelligence |-> intel[c]]]

\* add_intelligence dropping the incoming values that were already stored
add_intelligence_data_toggle(sess, intel) ==
    [extracted_intelligence |->
        [c \in DOMAIN EmptyIntelligence |->
            (sess.extracted_intelligence[c] \ intel[c])
                \cup (intel[c] \ sess.extracted_intelligence[c])]]

\* add_intelligence, lines 169-188: per category list(set(current + incoming))
add_intelligence_data(sess, intel) ==
    [extracted_intelligence |->
        [c \in DOMAIN EmptyIntelligence |->
            sess.extracted_intelligence[c] \cup intel[c]]]

\* add_agent_note, lines 201-205
add_agent_note_data(sess, note) ==
    [agent_notes |-> Append(sess.agent_notes, note)]

(***************************************************************************)
(* Callback policy: app/utils/helpers.py, app/services/callback.py         *)
(***************************************************************************)

\* settings.max_conversation_turns as shipped (config.py line 27)
DefaultMaxTurns == 50
\* a low max_conversation_turns a deployment may set through its environment
SmallTurnLimit == 2

\* the values of settings.max_conversation_turns the model runs with
TurnLimits == {SmallTurnLimit, DefaultMaxTurns}

\* helpers.py lines 21-23: the fixed message-count threshold
CountThreshold == 15
\* helpers.py line 36: intelligence items needed, and the exchanges needed
IntelThreshold == 3
IntelCountThreshold == 10

\* the count with the suspicious keywords added to it
TotalIntel_with_keywords(intel) ==
    Cardinality(intel.bankAccounts) + Cardinality(intel.upiIds)
        + Cardinality(intel.phishingLinks) + Cardinality(intel.phoneNumbers)
        + Cardinality(intel.suspiciousKeywords)

\* helpers.py lines 29-34: bank accounts + payment handles + links + phones
TotalIntel(intel) ==
    Cardinality(intel.bankAccounts) + Cardinality(intel.upiIds)
        + Cardinality(intel.phishingLinks) + Cardinality(intel.phoneNumbers)

\* should_trigger_callback without its fixed message-count test
should_trigger_callback_no_count(sess, max_turns) ==
    IF sess = NoSession THEN FALSE
    ELSE IF ~sess.scam_detected THEN FALSE
    ELSE IF sess.message_count >= max_turns THEN TRUE
    ELSE IF /\ TotalIntel(sess.extracted_intelligence) >= IntelThreshold
            /\ sess.message_count >= IntelCountThreshold THEN TRUE
    ELSE FALSE

\* should_trigger_callback without its first test
should_trigger_callback_any(sess, max_turns) ==
    IF sess = NoSession THEN FALSE
    ELSE \/ sess.message_count >= CountThreshold
         \/ sess.message_count >= max_turns
         \/ /\ TotalIntel(sess.extracted_intelligence) >= IntelThreshold
            /\ sess.message_count >= IntelCountThreshold

\* should_trigger_callback (helpers.py lines 7-45). A None session raises
\* AttributeError inside the try, which the except turns into False.
should_trigger_callback(sess, max_turns) ==
    IF sess = NoSession THEN FALSE
    ELSE IF ~sess.scam_detected THEN FALSE
    ELSE IF sess.message_count >= CountThreshold THEN TRUE
    ELSE IF sess.message_count >= max_turns THEN TRUE
    ELSE IF /\ TotalIntel(sess.extracted_intelligence) >= IntelThreshold
            /\ sess.message_count >= IntelCountThreshold THEN TRUE
    ELSE FALSE

\* what the evaluator's endpoint can answer to the POST (callback.py 77-97):
\* HTTP 200, another status, a timeout, any other error
PostOutcomes == {"200", "500", "timeout", "error"}

\* send_final_result_to_guvi's return value for an outcome of the POST
SendResult(outcome) == outcome = "200"


\* most messages of a session handed to the policy
MaxPolicyCount == 16

\* values the pattern and generative passes find in messages
BankValues == {"123456789012"}
UpiValues == {"first@paytm", "second@phonepe"}
LinkValues == {"http://bit.ly/x"}
PhoneValues == {"9876543210"}
KeywordValues == {"blocked", "verify"}

\* the message at position i of a transcript of alternating senders
TranscriptMessage(i) ==
    IF i % 2 = 1 THEN [sender |-> "scammer", text |-> "verify_upi"]
    ELSE [sender |-> "user", text |-> "agent_reply"]

\* sessions the store can hold, as arguments of the policy
PolicySessions ==
    { [NewSession("s1", 0, sd, IF sd THEN "upi_scam" ELSE "not_scam") EXCEPT
          !.message_count = n,
          !.conversation_history = [i \in 1..n |-> TranscriptMessage(i)],
          !.extracted_intelligence =
              [bankAccounts |-> b, upiIds |-> u, phishingLinks |-> l,
               phoneNumbers |-> ph, suspiciousKeywords |-> kw]] :
        sd \in BOOLEAN, n \in 0..MaxPolicyCount,
        b \in SUBSET BankValues, u \in SUBSET UpiValues,
        l \in SUBSET LinkValues, ph \in SUBSET PhoneValues,
        kw \in {{}, KeywordValues} }

\* no POST made yet
NoPayload == [sent |-> FALSE]

\* sep.join(seq)
RECURSIVE Join(_, _)
Join(seq, sep) ==
    IF seq = <<>> THEN ""
    ELSE IF Len(seq) = 1 THEN seq[1]
    ELSE seq[1] \o sep \o Join(Tail(seq), sep)

\* the payload of send_final_result_to_guvi (callback.py lines 54-66)
Payload(session_id, sess) ==
    [sessionId |-> session_id,
     scamDetected |-> sess.scam_detected,
     totalMessagesExchanged |-> sess.message_count,
     extractedIntelligence |->
        [bankAccounts |-> sess.extracted_intelligence.bankAccounts,
         upiIds |-> sess.extracted_intelligence.upiIds,
         phishingLinks |-> sess.extracted_intelligence.phishingLinks,
         phoneNumbers |-> sess.extracted_intelligence.phoneNumbers,
         suspiciousKeywords |->
            sess.extracted_intelligence.suspiciousKeywords],
     agentNotes |->
        IF sess.agent_notes # <<>> THEN Join(sess.agent_notes, " | ")
        ELSE "No additional notes"]

PolInit ==
    /\ max_conversation_turns \in TurnLimits
    /\ pol_session \in PolicySessions
    /\ pol_pc = "called"
    /\ pol_result = FALSE
    /\ pol_posts = 0
    /\ pol_outcome = "none"
    /\ payload = NoPayload

\* trigger_callback_if_needed, callback.py lines 113-117: the policy decides
trigger_callback_if_needed(sess) ==
    /\ pol_pc = "called"
    /\ IF should_trigger_callback(sess, max_conversation_turns)
       THEN /\ pol_pc' = "sending"
            /\ UNCHANGED pol_result
       ELSE /\ pol_pc' = "returned"
            /\ pol_result' = FALSE
    /\ UNCHANGED <<max_conversation_turns, pol_session, pol_posts,
                   pol_outcome, payload>>
    /\ polFrame

\* the sender POSTing again until the evaluator answers 200
send_final_result_to_guvi_retrying(outcome) ==
    /\ pol_pc = "sending"
    /\ pol_posts' = pol_posts + 1
    /\ pol_outcome' = outcome
    /\ payload' = Payload(pol_session.session_id, pol_session)
    /\ pol_result' = SendResult(outcome)
    /\ pol_pc' = IF SendResult(outcome) THEN "returned" ELSE "sending"
    /\ UNCHANGED <<max_conversation_turns, pol_session>>
    /\ polFrame

\* send_final_result_to_guvi, callback.py lines 52-97: the payload is built,
\* one POST is made, and the result is True on status 200; another status,
\* the timeout and any other exception end in `return False`
send_final_result_to_guvi(outcome) ==
    /\ pol_pc = "sending"
    /\ pol_posts' = pol_posts + 1
    /\ pol_outcome' = outcome
    /\ payload' = Payload(pol_session.session_id, pol_session)
    /\ pol_result' = SendResult(outcome)
    /\ pol_pc' = "returned"
    /\ UNCHANGED <<max_conversation_turns, pol_session>>
    /\ polFrame

PolNext ==
    \/ trigger_callback_if_needed(pol_session)
    \/ \E outcome \in PostOutcomes : send_final_result_to_guvi(outcome)

\* the policy's variables while another component runs
PolIdle ==
    /\ max_conversation_turns = DefaultMaxTurns
    /\ pol_session = NoSession
    /\ pol_pc = "idle"
    /\ pol_result = FALSE
    /\ pol_posts = 0
    /\ pol_outcome = "none"
    /\ payload = NoPayload

\* the rotator's variables while another component runs
RotIdle ==
    /\ num_api_keys = 1
    /\ clients = {0}
    /\ current_index = 0
    /\ lock = NoThread
    /\ tpc = [t \in Threads |-> "idle"]
    /\ tkind = [t \in Threads |-> "none"]
    /\ tclient = [t \in Threads |-> NoClient]
    /\ tleft = [t \in Threads |-> 0]
    /\ tcalls = [t \in Threads |-> 0]
    /\ tret = [t \in Threads |-> NoClient]
    /\ tdone = [t \in Threads |-> "none"]
    /\ started = 0
    /\ observed = <<>>

(***************************************************************************)
(* The bounded cache: app/utils/cache.py, SimpleCache                      *)
(***************************************************************************)

\* largest capacity a cache is built with
MaxCacheSize == 2
\* most get and set calls in one run
MaxCacheCalls == 5

\* message fingerprints (generate_message_hash) used as keys
CacheKeys == 1..(MaxCacheSize + 2)

\* the result cached under a fingerprint
CachedResult(key) == [result |-> key]

\* get's None
NoValue == [none |-> TRUE]
NoEviction == [none |-> TRUE]

\* the keys of self.cache
CachedKeys == {cache[i].key : i \in 1..Len(cache)}

\* position of a key in the dicts
IndexOf(key) == CHOOSE i \in 1..Len(cache) : cache[i].key = key

\* a sequence without its i-th element
RemoveAt(seq, i) == SubSeq(seq, 1, i - 1) \o SubSeq(seq, i + 1, Len(seq))

\* the entry added last among those with the smallest access count
LastMinIndex(seq) ==
    CHOOSE i \in 1..Len(seq) :
        /\ \A j \in 1..Len(seq) : seq[i].count <= seq[j].count
        /\ \A j \in (i + 1)..Len(seq) : seq[j].count > seq[i].count

\* the entry added first, whatever its access count
FirstIndex(seq) ==
    CHOOSE i \in 1..Len(seq) : \A j \in 1..Len(seq) : i <= j

\* min(self.access_count, key=self.access_count.get), line 53: the first
\* key, in the dict's order, among those with the smallest access count
MinIndex(seq) ==
    CHOOSE i \in 1..Len(seq) :
        /\ \A j \in 1..Len(seq) : seq[i].count <= seq[j].count
        /\ \A j \in 1..(i - 1) : seq[j].count > seq[i].count

\* SimpleCache.__init__ (lines 18-21)
CacheInit ==
    /\ max_size \in 1..MaxCacheSize
    /\ cache = <<>>
    /\ cache_ret = NoValue
    /\ hits = [key \in CacheKeys |-> 0]
    /\ set_log = <<>>
    /\ gets = 0
    /\ clears = 0
    /\ evicted = NoEviction

\* calls made on the cache so far
CacheCalls == gets + Len(set_log) + clears

\* SimpleCache.get (lines 23-47): a hit counts one access and returns the
\* value, a miss returns None
CacheGet(key) ==
    /\ gets' = gets + 1
    /\ IF key \in CachedKeys
       THEN /\ cache' = [cache EXCEPT ![IndexOf(key)].count = @ + 1]
            /\ cache_ret' = cache[IndexOf(key)].value
            /\ hits' = [hits EXCEPT ![key] = @ + 1]
       ELSE /\ cache_ret' = NoValue
            /\ UNCHANGED <<cache, hits>>
    /\ UNCHANGED <<max_size, set_log, clears, evicted>>

\* the dicts after `self.cache[key] = value; self.access_count[key] = 0`
\* (lines 58-59): a key already there keeps its place, a new one goes last
Store(seq, key, value) ==
    IF \E i \in 1..Len(seq) : seq[i].key = key
    THEN [i \in 1..Len(seq) |->
            IF seq[i].key = key
            THEN [key |-> key, value |-> value, count |-> 0]
            ELSE seq[i]]
    ELSE Append(seq, [key |-> key, value |-> value, count |-> 0])

\* set storing the key without making room for it
CacheSet_no_evict(key, value) ==
    /\ set_log' = Append(set_log, key)
    /\ hits' = [hits EXCEPT ![key] = 0]
    /\ cache' = Store(cache, key, value)
    /\ UNCHANGED <<max_size, cache_ret, gets, clears, evicted>>

\* SimpleCache.set (lines 49-60): when the cache is full the entry with the
\* smallest access count is deleted, then the key is stored with count 0
CacheSet(key, value) ==
    /\ set_log' = Append(set_log, key)
    /\ hits' = [hits EXCEPT ![key] = 0]
    /\ IF Len(cache) >= max_size
       THEN LET i == MinIndex(cache) IN
            /\ cache' = Store(RemoveAt(cache, i), key, value)
            /\ evicted' = [key |-> cache[i].key,
                           count |-> cache[i].count,
                           hits |-> hits[cache[i].key],
                           present_counts |->
                               {cache[j].count : j \in 1..Len(cache)},
                           present_hits |->
                               {hits[cache[j].key] : j \in 1..Len(cache)}]
       ELSE /\ cache' = Store(cache, key, value)
            /\ UNCHANGED evicted
    /\ UNCHANGED <<max_size, cache_ret, gets, clears>>

\* a caller's get
cache_get(key) ==
    /\ CacheCalls < MaxCacheCalls
    /\ CacheGet(key)
    /\ cacheFrame

\* a caller's set
cache_set(key, value) ==
    /\ CacheCalls < MaxCacheCalls
    /\ CacheSet(key, value)
    /\ cacheFrame

\* SimpleCache.clear (lines 62-66): both dicts are emptied
cache_clear ==
    /\ CacheCalls < MaxCacheCalls
    /\ clears' = clears + 1
    /\ cache' = <<>>
    /\ UNCHANGED <<max_size, cache_ret, hits, set_log, gets, evicted>>
    /\ cacheFrame

CacheNext ==
    \/ \E key \in CacheKeys : cache_get(key)
    \/ \E key \in CacheKeys : cache_set(key, CachedResult(key))
    \/ cache_clear

\* the cache's variables while another component runs
CacheIdle ==
    /\ max_size = 1
    /\ cache = <<>>
    /\ cache_ret = NoValue
    /\ hits = [key \in CacheKeys |-> 0]
    /\ set_log = <<>>
    /\ gets = 0
    /\ clears = 0
    /\ evicted = NoEviction

(***************************************************************************)
(* Merging the two passes: app/services/intel_extractor.py                 *)
(***************************************************************************)

\* longest list a pass returns for one field
MaxListLen == 2

\* the fields of ExtractedIntelligence (models/response.py lines 10-15), in
\* the order _create_enhanced_intelligence walks them (line 181)
Fields ==
    {"bankAccounts", "upiIds", "phishingLinks", "phoneNumbers",
     "suspiciousKeywords"}

\* ExtractedIntelligence(): every field an empty list
ExtractedIntelligence == [f \in Fields |-> <<>>]

\* values a pass can put in each field
FieldValues ==
    [bankAccounts |-> {"123456789012", "IFSC:HDFC0001234"},
     upiIds |-> UpiValues,
     phishingLinks |-> {"http://bit.ly/x", "https://kyc.example"},
     phoneNumbers |-> {"9876543210", "123456789012"},
     suspiciousKeywords |-> KeywordValues]

\* lists over S, repetitions included
Lists(S) == UNION {[1..n -> S] : n \in 0..MaxListLen}

\* set(list)
Range(seq) == {seq[i] : i \in DOMAIN seq}

\* list(set): the elements once each, in an order the runtime chooses
ListOfSet(S) == {seq \in [1..Cardinality(S) -> S] : Range(seq) = S}

\* a result with one value in every field
OneEach == [f \in Fields |-> <<CHOOSE v \in FieldValues[f] : TRUE>>]

\* results a pass can return: one field holds any list, the others hold
\* nothing or one value each
PassResults ==
    UNION {{[base EXCEPT ![f] = l] :
                base \in {ExtractedIntelligence, OneEach},
                l \in Lists(FieldValues[f])} : f \in Fields}

\* a result not computed yet
NotComputed == [computed |-> FALSE]

\* the merge keeping both lists as they are
_merge_intelligence_concat(regex, llm) ==
    {[f \in Fields |-> regex[f] \o llm[f]]}

\* _merge_intelligence (lines 154-168): per field list(set(regex + llm));
\* the set of results differs only in the order of the lists
_merge_intelligence(regex, llm) ==
    [bankAccounts : ListOfSet(Range(regex.bankAccounts \o llm.bankAccounts)),
     upiIds : ListOfSet(Range(regex.upiIds \o llm.upiIds)),
     phishingLinks :
        ListOfSet(Range(regex.phishingLinks \o llm.phishingLinks)),
     phoneNumbers : ListOfSet(Range(regex.phoneNumbers \o llm.phoneNumbers)),
     suspiciousKeywords :
        ListOfSet(Range(regex.suspiciousKeywords \o llm.suspiciousKeywords))]

\* the confidence tiers, in hundredths
ConfidenceBoth == 95
ConfidenceRegex == 75
ConfidenceLlm == 85

\* IntelligenceItem (models/intelligence.py lines 9-15) for each value of a
\* list; extracted_at, one timestamp for the whole call, is left out
Items(values, confidence, source, turn_number) ==
    [i \in DOMAIN values |->
        [value |-> values[i], confidence |-> confidence, source |-> source,
         message_turn |-> turn_number]]

\* the items of one field with the values of both passes listed again as
\* values of the regex pass
EnhancedItems_overlapping(regex_items, llm_items, turn_number) ==
    {Items(b, ConfidenceBoth, "both", turn_number)
        \o Items(r, ConfidenceRegex, "regex", turn_number)
        \o Items(l, ConfidenceLlm, "llm", turn_number) :
        b \in ListOfSet(Range(regex_items) \cap Range(llm_items)),
        r \in ListOfSet(Range(regex_items)),
        l \in ListOfSet(Range(llm_items) \ Range(regex_items))}

\* the items of one field (lines 182-218): the values of both passes, then
\* those of the regex pass only, then those of the LLM pass only
EnhancedItems(regex_items, llm_items, turn_number) ==
    {Items(b, ConfidenceBoth, "both", turn_number)
        \o Items(r, ConfidenceRegex, "regex", turn_number)
        \o Items(l, ConfidenceLlm, "llm", turn_number) :
        b \in ListOfSet(Range(regex_items) \cap Range(llm_items)),
        r \in ListOfSet(Range(regex_items) \ Range(llm_items)),
        l \in ListOfSet(Range(llm_items) \ Range(regex_items))}

\* _create_enhanced_intelligence (lines 170-221)
_create_enhanced_intelligence(regex, llm, turn_number) ==
    [bankAccounts :
        EnhancedItems(regex.bankAccounts, llm.bankAccounts, turn_number),
     upiIds : EnhancedItems(regex.upiIds, llm.upiIds, turn_number),
     phishingLinks :
        EnhancedItems(regex.phishingLinks, llm.phishingLinks, turn_number),
     phoneNumbers :
        EnhancedItems(regex.phoneNumbers, llm.phoneNumbers, turn_number),
     suspiciousKeywords :
        EnhancedItems(regex.suspiciousKeywords, llm.suspiciousKeywords,
                      turn_number)]

\* EnhancedIntelligence.to_simple_format (models/intelligence.py lines 26-34)
to_simple_format(enh) ==
    [f \in Fields |-> [i \in DOMAIN enh[f] |-> enh[f][i].value]]

\* the turn numbers a caller passes
TurnNumbers == {0, 1}

MergeInit ==
    /\ merge_regex \in PassResults
    /\ merge_llm \in PassResults
    /\ merged = NotComputed
    /\ enhanced = NotComputed
    /\ simple = NotComputed

\* a call of _merge_intelligence on the two results
merge_intelligence ==
    /\ merged = NotComputed
    /\ merged' \in _merge_intelligence(merge_regex, merge_llm)
    /\ UNCHANGED <<merge_regex, merge_llm, enhanced, simple>>
    /\ mergeFrame

\* a call of _create_enhanced_intelligence on the two results
create_enhanced_intelligence(turn_number) ==
    /\ enhanced = NotComputed
    /\ enhanced' \in
            _create_enhanced_intelligence(merge_regex, merge_llm, turn_number)
    /\ UNCHANGED <<merge_regex, merge_llm, merged, simple>>
    /\ mergeFrame

\* a call of to_simple_format on the enhanced result
simple_format ==
    /\ enhanced # NotComputed
    /\ simple = NotComputed
    /\ simple' = to_simple_format(enhanced)
    /\ UNCHANGED <<merge_regex, merge_llm, merged, enhanced>>
    /\ mergeFrame

MergeNext ==
    \/ merge_intelligence
    \/ \E turn_number \in TurnNumbers :
            create_enhanced_intelligence(turn_number)
    \/ simple_format

\* the merge's variables while another component runs
MergeIdle ==
    /\ merge_regex = ExtractedIntelligence
    /\ merge_llm = ExtractedIntelligence
    /\ merged = NotComputed
    /\ enhanced = NotComputed
    /\ simple = NotComputed

(***************************************************************************)
(* The bank-account rule of the regex pass                                 *)
(***************************************************************************)

\* longest standalone run of digits in a message
MaxDigits == 19
\* most digit runs in a message
MaxRuns == 2

\* PATTERNS["bank_account"] = \b\d{9,18}\b (line 18) on a standalone run of
\* n digits: the run has no word boundary inside, so it matches as a whole
\* or not at all
MatchesBankAccount(n) == 9 <= n /\ n <= 18

\* re.findall(PATTERNS["bank_account"], message) (line 55)
FindallBankAccount(runs) == SelectSeq(runs, MatchesBankAccount)

\* line 57: [acc for acc in bank_accounts if len(acc) > 10]
ExtractBankAccounts(runs) ==
    LET LongerThanTen(n) == n > 10
    IN  SelectSeq(FindallBankAccount(runs), LongerThanTen)

\* messages: up to MaxRuns runs of 1..MaxDigits digits
DigitMessages == UNION {[1..k -> 1..MaxDigits] : k \in 0..MaxRuns}

AccountInit ==
    /\ digit_runs \in DigitMessages
    /\ bank_accounts = <<>>
    /\ account_pc = "called"

\* the regex pass computes intel.bankAccounts
extract_bank_accounts ==
    /\ account_pc = "called"
    /\ account_pc' = "returned"
    /\ bank_accounts' = ExtractBankAccounts(digit_runs)
    /\ UNCHANGED digit_runs
    /\ accountFrame

AccountNext == extract_bank_accounts

\* the rule's variables while another component runs
AccountIdle ==
    /\ digit_runs = <<>>
    /\ bank_accounts = <<>>
    /\ account_pc = "idle"

(***************************************************************************)
(* IntelligenceExtractor.extract: app/services/intel_extractor.py          *)
(***************************************************************************)

\* calls of extract in one behaviour
MaxExtractCalls == 3

\* the messages extract is called with
Messages == {"upi_twice", "bank_and_link", "hello", "blocked_verify_upi"}

\* generate_message_hash (cache.py lines 10-12): the MD5 digest, distinct
\* for these messages
generate_message_hash(msg) ==
    CASE msg = "upi_twice" -> 1
      [] msg = "bank_and_link" -> 2
      [] msg = "hello" -> 3
      [] msg = "blocked_verify_upi" -> 4

\* re.findall(PATTERNS[pattern], message)
Findall(pattern, msg) ==
    CASE msg = "upi_twice" /\ pattern = "upi_id" ->
            <<"first@paytm", "first@paytm", "info@mail">>
      [] msg = "bank_and_link" /\ pattern = "bank_account" ->
            <<"123456789012", "9876543210">>
      [] msg = "bank_and_link" /\ pattern = "phone" ->
            <<"123456789012", "9876543210">>
      [] msg = "bank_and_link" /\ pattern = "url" ->
            <<"http://bit.ly/x", "http://bit.ly/x">>
      [] msg = "bank_and_link" /\ pattern = "ifsc" -> <<"HDFC0001234">>
      [] msg = "blocked_verify_upi" /\ pattern = "upi_id" -> <<"verify@upi">>
      [] OTHER -> <<>>

\* the SCAM_KEYWORDS found in the lowered message (lines 82-85), of a list
\* cut down to "blocked" and "verify"
FoundKeywords(msg) ==
    CASE msg = "upi_twice" -> {"verify"}
      [] msg = "bank_and_link" -> {"blocked", "verify"}
      [] msg = "blocked_verify_upi" -> {"blocked", "verify"}
      [] OTHER -> {}

\* line 48
upi_providers ==
    {"paytm", "phonepe", "googlepay", "ybl", "oksbi", "okaxis", "okicici"}

\* the lowered handle, split at its "@"; no part of these handles holds a
\* provider's name without being it
HandleParts(upi) ==
    CASE upi = "first@paytm" -> {"first", "paytm"}
      [] upi = "second@phonepe" -> {"second", "phonepe"}
      [] upi = "info@mail" -> {"info", "mail"}
      [] upi = "verify@upi" -> {"verify", "upi"}

\* any(provider in upi.lower() for provider in upi_providers) (line 51)
HasProvider(upi) == \E provider \in upi_providers : provider \in HandleParts(upi)

\* len(value) of a run of digits
DigitCount(value) ==
    CASE value = "123456789012" -> 12
      [] value = "9876543210" -> 10
      [] OTHER -> 0

\* the account list after the IFSC codes are appended (lines 72-76)
WithIfsc(accounts, codes) ==
    accounts \o [i \in DOMAIN codes |-> "IFSC:" \o codes[i]]

\* _extract_with_regex (lines 40-91): the links and the keywords go through
\* list(set(...)), the other lists keep the order and repetitions of findall
_extract_with_regex(msg) ==
    LET LongAccount(acc) == DigitCount(acc) > 10
        ValidPhone(phone) == DigitCount(phone) >= 10
    IN  [bankAccounts :
            {WithIfsc(SelectSeq(Findall("bank_account", msg), LongAccount),
                      Findall("ifsc", msg))},
         upiIds : {SelectSeq(Findall("upi_id", msg), HasProvider)},
         phishingLinks : ListOfSet(Range(Findall("url", msg))),
         phoneNumbers : {SelectSeq(Findall("phone", msg), ValidPhone)},
         suspiciousKeywords : ListOfSet(FoundKeywords(msg))]

\* how a call of the LLM pass can end: a parsed answer, get_client()
\* returning None (lines 97-100), or an exception of the request or of
\* parsing the answer (lines 142-152)
LlmOutcomes == {"ok", "no_client", "service_error", "timeout", "malformed"}

\* answers the model gives
LlmAnswers ==
    {ExtractedIntelligence,
     [ExtractedIntelligence EXCEPT
        !.upiIds = <<"first@paytm", "second@phonepe">>,
        !.phoneNumbers = <<"9876543210", "9876543210">>]}

\* the LLM pass keeping what it had of the answer when it fails
_extract_with_llm_partial(outcome, answer) == answer

\* _extract_with_llm (lines 93-152): the parsed answer, and an empty
\* ExtractedIntelligence whenever there is no client or anything raises
_extract_with_llm(outcome, answer) ==
    IF outcome = "ok" THEN answer ELSE ExtractedIntelligence

ExInit ==
    /\ ex_pc = "idle"
    /\ ex_message = "hello"
    /\ cache_key = generate_message_hash("hello")
    /\ cached_result = NoValue
    /\ regex_intel = NotComputed
    /\ llm_intel = NotComputed
    /\ llm_outcome = "none"
    /\ final_intel = NotComputed
    /\ ex_ret = NotComputed
    /\ ex_trace = <<>>
    /\ ex_calls = 0
    /\ llm_failed_for = [key \in CacheKeys |-> FALSE]

\* extract taking the miss branch whatever the cache returned
extract_cache_get_unchecked(msg) ==
    /\ ex_pc \in {"idle", "done"}
    /\ ex_calls < MaxExtractCalls
    /\ ex_message' = msg
    /\ cache_key' = generate_message_hash(msg)
    /\ CacheGet(generate_message_hash(msg))
    /\ cached_result' = cache_ret'
    /\ ex_pc' = "regex"
    /\ regex_intel' = NotComputed
    /\ llm_intel' = NotComputed
    /\ llm_outcome' = "none"
    /\ final_intel' = NotComputed
    /\ ex_ret' = NotComputed
    /\ ex_trace' = <<"cache_get">>
    /\ UNCHANGED <<ex_calls, llm_failed_for>>
    /\ exFrame

\* extract, lines 234-238: the fingerprint, the lookup, and the test of what
\* it returned (a cached dict has five keys, so it is true whenever present)
extract_cache_get(msg) ==
    /\ ex_pc \in {"idle", "done"}
    /\ ex_calls < MaxExtractCalls
    /\ ex_message' = msg
    /\ cache_key' = generate_message_hash(msg)
    /\ CacheGet(generate_message_hash(msg))
    /\ cached_result' = cache_ret'
    /\ ex_pc' = IF cache_ret' # NoValue THEN "hit" ELSE "regex"
    /\ regex_intel' = NotComputed
    /\ llm_intel' = NotComputed
    /\ llm_outcome' = "none"
    /\ final_intel' = NotComputed
    /\ ex_ret' = NotComputed
    /\ ex_trace' = <<"cache_get">>
    /\ UNCHANGED <<ex_calls, llm_failed_for>>
    /\ exFrame

\* lines 239-240: return ExtractedIntelligence(**cached_result)
extract_return_cached ==
    /\ ex_pc = "hit"
    /\ ex_ret' = cached_result
    /\ ex_pc' = "done"
    /\ ex_trace' = Append(ex_trace, "return")
    /\ ex_calls' = ex_calls + 1
    /\ UNCHANGED <<ex_message, cache_key, cached_result, regex_intel,
                   llm_intel, llm_outcome, final_intel, llm_failed_for>>
    /\ UNCHANGED cacheVars
    /\ exFrame

\* line 243: the regex pass
extract_regex ==
    /\ ex_pc = "regex"
    /\ regex_intel' \in _extract_with_regex(ex_message)
    /\ ex_pc' = "llm"
    /\ ex_trace' = Append(ex_trace, "regex")
    /\ UNCHANGED <<ex_message, cache_key, cached_result, llm_intel, llm_outcome,
                   final_intel, ex_ret, ex_calls, llm_failed_for>>
    /\ UNCHANGED cacheVars
    /\ exFrame

\* line 246: the LLM pass
extract_llm(outcome, answer) ==
    /\ ex_pc = "llm"
    /\ llm_outcome' = outcome
    /\ llm_intel' = _extract_with_llm(outcome, answer)
    /\ ex_pc' = "merge"
    /\ ex_trace' = Append(ex_trace, "llm")
    /\ UNCHANGED <<ex_message, cache_key, cached_result, regex_intel,
                   final_intel, ex_ret, ex_calls, llm_failed_for>>
    /\ UNCHANGED cacheVars
    /\ exFrame

\* line 249: the merge
extract_merge ==
    /\ ex_pc = "merge"
    /\ final_intel' \in _merge_intelligence(regex_intel, llm_intel)
    /\ ex_pc' = "store"
    /\ ex_trace' = Append(ex_trace, "merge")
    /\ UNCHANGED <<ex_message, cache_key, cached_result, regex_intel,
                   llm_intel, llm_outcome, ex_ret, ex_calls, llm_failed_for>>
    /\ UNCHANGED cacheVars
    /\ exFrame

\* how the LLM pass can fail (lines 101-103 and 150-152)
LlmFailures == LlmOutcomes \ {"ok"}

\* which cached keys hold the result of a call whose LLM pass failed, once
\* the call in progress has stored its own
FailedFor(keys) ==
    [key \in CacheKeys |->
        IF key = cache_key THEN llm_outcome \in LlmFailures
        ELSE key \in keys /\ llm_failed_for[key]]

\* extract storing its result only when the LLM pass succeeded
extract_cache_set_if_llm_ok ==
    /\ ex_pc = "store"
    /\ IF llm_outcome \in LlmFailures
       THEN UNCHANGED <<cacheVars, llm_failed_for>>
       ELSE /\ CacheSet(cache_key, final_intel)
            /\ llm_failed_for' =
                  FailedFor({cache'[i].key : i \in 1..Len(cache')})
    /\ ex_pc' = "return"
    /\ ex_trace' = Append(ex_trace, "cache_set")
    /\ UNCHANGED <<ex_message, cache_key, cached_result, regex_intel,
                   llm_intel, llm_outcome, final_intel, ex_ret, ex_calls>>
    /\ exFrame

\* line 258: intelligence_cache.set(cache_key, final_intel.model_dump()),
\* whatever the LLM pass did
extract_cache_set ==
    /\ ex_pc = "store"
    /\ CacheSet(cache_key, final_intel)
    /\ llm_failed_for' = FailedFor({cache'[i].key : i \in 1..Len(cache')})
    /\ ex_pc' = "return"
    /\ ex_trace' = Append(ex_trace, "cache_set")
    /\ UNCHANGED <<ex_message, cache_key, cached_result, regex_intel,
                   llm_intel, llm_outcome, final_intel, ex_ret, ex_calls>>
    /\ exFrame

\* line 260: return final_intel
extract_return ==
    /\ ex_pc = "return"
    /\ ex_ret' = final_intel
    /\ ex_pc' = "done"
    /\ ex_trace' = Append(ex_trace, "return")
    /\ ex_calls' = ex_calls + 1
    /\ UNCHANGED <<ex_message, cache_key, cached_result, regex_intel,
                   llm_intel, llm_outcome, final_intel, llm_failed_for>>
    /\ UNCHANGED cacheVars
    /\ exFrame

ExNext ==
    \/ \E msg \in Messages : extract_cache_get(msg)
    \/ extract_return_cached
    \/ extract_regex
    \/ \E outcome \in LlmOutcomes, answer \in LlmAnswers :
            extract_llm(outcome, answer)
    \/ extract_merge
    \/ extract_cache_set
    \/ extract_return

\* extract's variables while another component runs
ExIdle == ExInit

(***************************************************************************)
(* The honeypot turn: app/main.py, honeypot_endpoint                       *)
(***************************************************************************)

\* workers calling into the SessionManager at the same time
NumProcs == 2
\* most honeypot turns in one run
MaxTurns == 3
\* most direct SessionManager calls in one run
MaxOps == 3

Procs == 1..NumProcs

\* honeypot_endpoint runs on one event loop and awaits nothing that suspends
\* before its final POST (the store client is synchronous): one worker
\* serves its turns one after the other.
EventLoop == {1}

\* message texts a counterpart sends
Texts == {"verify_upi", "pay_second", "hello"}

\* scam_detector.detect_scam on each text (a cached, per-text verdict)
detect_scam(text) ==
    IF text = "hello"
    THEN [is_scam |-> FALSE, scam_type |-> "not_scam"]
    ELSE [is_scam |-> TRUE, scam_type |-> "upi_scam"]

\* intel_extractor.extract on each text
extract(text) ==
    CASE text = "verify_upi" ->
            [EmptyIntelligence EXCEPT !.upiIds = {"first@paytm"},
                                      !.suspiciousKeywords = {"blocked", "verify"}]
      [] text = "pay_second" ->
            [EmptyIntelligence EXCEPT !.upiIds = {"second@phonepe"},
                                      !.bankAccounts = {"123456789012"},
                                      !.phoneNumbers = {"9876543210"}]
      [] OTHER -> EmptyIntelligence


NoRequest == [none |-> TRUE]
NoOp == [kind |-> "none"]
NoResponse == [status |-> "none"]

\* session_manager.get_session (lines 98-115): None without a client, else
\* the stored record, None when the key is absent
get_session(k) == IF redis = "none" THEN NoSession ELSE store[k]

\* the lifetime of a stored session, settings.session_ttl, in clock ticks
SessionTtl == 3

\* a set that kept the remaining lifetime of a key already stored
SetEx_keepttl(k) ==
    ttl' = [ttl EXCEPT ![k] = IF @ = 0 THEN SessionTtl ELSE @]

\* redis.set(key, value, ex=settings.session_ttl): the key's lifetime starts
\* again from the full session_ttl
SetEx(k) ==
    ttl' = [ttl EXCEPT ![k] = SessionTtl]

\* the key has just been written: no time has passed since its last write
Written(k) ==
    idle' = [idle EXCEPT ![k] = 0]

\* the values self.redis can have after SessionManager.__init__ (lines 44-53)
RedisStates == {"client", "none"}

\* the store and the workers before any call
SesStart ==
    /\ store = [k \in Keys |-> NoSession]
    /\ now = 0
    /\ pc = [p \in Procs |-> "idle"]
    /\ req = [p \in Procs |-> NoRequest]
    /\ session = [p \in Procs |-> NoSession]
    /\ op = [p \in Procs |-> NoOp]
    /\ engagement_metrics = [p \in Procs |-> NoSession]
    /\ intelligence = [p \in Procs |-> NoSession]
    /\ updated_session = [p \in Procs |-> NoSession]
    /\ resp = [p \in Procs |-> NoResponse]
    /\ ret = [p \in Procs |-> FALSE]
    /\ turns = 0
    /\ ops = 0
    /\ accepted = [k \in Keys |-> 0]
    /\ reported = [k \in Keys |-> 0]
    /\ ttl = [k \in Keys |-> 0]
    /\ idle = [k \in Keys |-> -1]

\* a SessionManager whose client was built
SesInit ==
    /\ SesStart
    /\ redis = "client"

\* the agent's reply (main.py lines 207-249): generated for a detected scam,
\* NON_SCAM_RESPONSE otherwise
AgentMessage(scam_detected) ==
    [sender |-> "user",
     text |-> IF scam_detected THEN "agent_reply" ELSE "non_scam_response"]

\* a SessionManager mutation about to start
Mutation(kind, arg, stage) == [kind |-> kind, arg |-> arg, stage |-> stage]

\* main.py lines 179-182: extract, then add_intelligence
StartIntel(p, text) == Mutation("add_intelligence", extract(text), "intel")

\* what honeypot_endpoint does after the mutation at `stage` has returned
\* (main.py lines 174-261); ses is the endpoint's local session
AfterMutation(stage, r, ses) ==
    CASE stage = "note0" -> Mutation("add_intelligence", extract(r.text), "intel")
      [] stage = "intel" ->
            IF ses.scam_detected
            THEN Mutation("add_agent_note", "turn_note", "note")
            ELSE Mutation("add_message",
                          [sender |-> "scammer", text |-> r.text], "msg1")
      [] stage = "note" ->
            Mutation("add_message", [sender |-> "scammer", text |-> r.text], "msg1")
      [] stage = "msg1" ->
            Mutation("add_message", AgentMessage(ses.scam_detected), "msg2")
      [] OTHER -> NoOp

\* where the caller of the mutation at `stage` goes on: the endpoint to its
\* next mutation or, after the last, to its reads; a direct caller is done
PcAfter(stage) ==
    CASE stage = "direct" -> "idle"
      [] stage = "msg2" -> "t_metrics"
      [] OTHER -> "op_r1"

\* a request arrives: POST /api/honeypot
HoneypotRequest(p, k, text, history_empty) ==
    /\ pc[p] = "idle"
    /\ turns < MaxTurns
    /\ turns' = turns + 1
    /\ req' = [req EXCEPT ![p] =
          [sessionId |-> k, text |-> text, history_empty |-> history_empty]]
    /\ pc' = [pc EXCEPT ![p] = "t_get"]
    /\ UNCHANGED <<store, now, session, op, engagement_metrics, intelligence,
                   updated_session, resp, ret, ops, accepted, reported>>
    /\ UNCHANGED <<ttl, idle>>
    /\ sesFrame

\* most turns of one conversation
MaxRunTurns == 9

\* the session id of the one conversation, and the texts its counterpart sends
RunKey == "s1"
RunTexts == {"verify_upi", "pay_second"}

\* the next request of one conversation: POST /api/honeypot with the same
\* sessionId every time, conversationHistory empty on the first turn only
ConversationRequest(p, text) ==
    /\ pc[p] = "idle"
    /\ turns < MaxRunTurns
    /\ turns' = turns + 1
    /\ req' = [req EXCEPT ![p] =
          [sessionId |-> RunKey, text |-> text, history_empty |-> turns = 0]]
    /\ pc' = [pc EXCEPT ![p] = "t_get"]
    /\ UNCHANGED <<store, now, session, op, engagement_metrics, intelligence,
                   updated_session, resp, ret, ops, accepted, reported>>
    /\ UNCHANGED <<ttl, idle>>
    /\ sesFrame

\* main.py lines 148-151: get_session, then the first-message test
endpoint_get_session(p) ==
    /\ pc[p] = "t_get"
    /\ LET s == get_session(req[p].sessionId) IN
       /\ session' = [session EXCEPT ![p] = s]
       /\ IF s = NoSession \/ req[p].history_empty
          THEN /\ pc' = [pc EXCEPT ![p] = "t_create"]
               /\ UNCHANGED op
          ELSE /\ pc' = [pc EXCEPT ![p] = "op_r1"]
               /\ op' = [op EXCEPT ![p] = StartIntel(p, req[p].text)]
    /\ UNCHANGED <<store, now, req, engagement_metrics, intelligence,
                   updated_session, resp, ret, turns, ops, accepted, reported>>
    /\ UNCHANGED <<ttl, idle>>
    /\ sesFrame

\* main.py lines 156-177: detect_scam, create_session (session_manager.py
\* lines 59-96: a fresh record is set under the key when there is a client,
\* and returned either way), then the initial note
endpoint_create_session(p) ==
    /\ pc[p] = "t_create"
    /\ LET k == req[p].sessionId
           d == detect_scam(req[p].text)
           fresh == NewSession(k, now, d.is_scam, d.scam_type) IN
       /\ IF redis = "client"
          THEN /\ store' = [store EXCEPT ![k] = fresh]
               /\ SetEx(k)
               /\ Written(k)
          ELSE UNCHANGED <<store, ttl, idle>>
       /\ session' = [session EXCEPT ![p] = fresh]
       /\ accepted' = [accepted EXCEPT ![k] = 0]
       /\ reported' = [reported EXCEPT ![k] = 0]
    /\ now' = now + 1
    /\ op' = [op EXCEPT ![p] = Mutation("add_agent_note", "initial_detection", "note0")]
    /\ pc' = [pc EXCEPT ![p] = "op_r1"]
    /\ UNCHANGED <<req, engagement_metrics, intelligence, updated_session,
                   resp, ret, turns, ops>>
    /\ sesFrame

\* the fields a mutation hands to update_session, from the session it read
MutationData(o, s) ==
    CASE o.kind = "add_message" -> add_message_data(s, o.arg)
      [] o.kind = "add_intelligence" -> add_intelligence_data(s, o.arg)
      [] OTHER -> add_agent_note_data(s, o.arg)

\* the mutation returns `value`: honeypot_endpoint ignores it and goes on to
\* its next call, a direct caller keeps it
MutationReturns(p, value) ==
    /\ op' = [op EXCEPT ![p] = AfterMutation(op[p].stage, req[p], session[p])]
    /\ pc' = [pc EXCEPT ![p] = PcAfter(op[p].stage)]
    /\ ret' = [ret EXCEPT ![p] = IF op[p].stage = "direct" THEN value ELSE @]
    /\ accepted' = [accepted EXCEPT ![req[p].sessionId] =
          IF op[p].kind = "add_message" /\ value THEN @ + 1 ELSE @]

\* a mutation that stored a fresh record when it found none
mutation_get_session_creating(p) ==
    /\ pc[p] = "op_r1"
    /\ LET k == req[p].sessionId
           s == get_session(k) IN
       IF s = NoSession
       THEN /\ store' = [store EXCEPT ![k] = NewSession(k, now, FALSE, "unknown")]
            /\ SetEx(k)
            /\ Written(k)
            /\ MutationReturns(p, TRUE)
       ELSE /\ op' = [op EXCEPT ![p] =
                  [kind |-> op[p].kind, arg |-> op[p].arg, stage |-> op[p].stage,
                   data |-> MutationData(op[p], s)]]
            /\ pc' = [pc EXCEPT ![p] = "op_r2"]
            /\ UNCHANGED <<store, ret, accepted, ttl, idle>>
    /\ UNCHANGED <<now, req, session, engagement_metrics, intelligence,
                   updated_session, resp, turns, ops, reported>>
    /\ sesFrame

\* add_message / add_intelligence / add_agent_note, their first lines: the
\* session is read (None: return False) and changed in memory.
mutation_get_session(p) ==
    /\ pc[p] = "op_r1"
    /\ LET s == get_session(req[p].sessionId) IN
       IF s = NoSession
       THEN MutationReturns(p, FALSE)
       ELSE /\ op' = [op EXCEPT ![p] =
                  [kind |-> op[p].kind, arg |-> op[p].arg, stage |-> op[p].stage,
                   data |-> MutationData(op[p], s)]]
            /\ pc' = [pc EXCEPT ![p] = "op_r2"]
            /\ UNCHANGED <<ret, accepted>>
    /\ UNCHANGED <<store, now, req, session, engagement_metrics, intelligence,
                   updated_session, resp, turns, ops, reported>>
    /\ UNCHANGED <<ttl, idle>>
    /\ sesFrame

\* update_session, lines 123-127: the session is read again (None: return
\* False) and the caller's fields are laid over it.
update_session_get(p) ==
    /\ pc[p] = "op_r2"
    /\ LET s == get_session(req[p].sessionId) IN
       IF s = NoSession
       THEN MutationReturns(p, FALSE)
       ELSE /\ op' = [op EXCEPT ![p] =
                  [kind |-> op[p].kind, arg |-> op[p].arg, stage |-> op[p].stage,
                   data |-> op[p].data,
                   session_dict |-> DictUpdate(s, op[p].data)]]
            /\ pc' = [pc EXCEPT ![p] = "op_w"]
            /\ UNCHANGED <<ret, accepted>>
    /\ UNCHANGED <<store, now, req, session, engagement_metrics, intelligence,
                   updated_session, resp, turns, ops, reported>>
    /\ UNCHANGED <<ttl, idle>>
    /\ sesFrame

\* update_session writing back the session it read, the caller's fields lost
update_session_set_unmerged(p) ==
    /\ pc[p] = "op_w"
    /\ store' = [store EXCEPT ![req[p].sessionId] =
          [f \in DOMAIN op[p].session_dict |->
              IF f \in DOMAIN op[p].data
              THEN store[req[p].sessionId][f]
              ELSE op[p].session_dict[f]]]
    /\ MutationReturns(p, TRUE)
    /\ UNCHANGED <<now, req, session, engagement_metrics, intelligence,
                   updated_session, resp, turns, ops, reported>>
    /\ SetEx(req[p].sessionId)
    /\ Written(req[p].sessionId)
    /\ sesFrame

\* update_session writing every session under one key
update_session_set_one_key(p) ==
    /\ pc[p] = "op_w"
    /\ store' = [store EXCEPT !["s1"] = op[p].session_dict]
    /\ MutationReturns(p, TRUE)
    /\ UNCHANGED <<now, req, session, engagement_metrics, intelligence,
                   updated_session, resp, turns, ops, reported>>
    /\ SetEx("s1")
    /\ Written("s1")
    /\ sesFrame

\* update_session, lines 129-136: redis.set of the merged record, return True
update_session_set(p) ==
    /\ pc[p] = "op_w"
    /\ store' = [store EXCEPT ![req[p].sessionId] = op[p].session_dict]
    /\ MutationReturns(p, TRUE)
    /\ UNCHANGED <<now, req, session, engagement_metrics, intelligence,
                   updated_session, resp, turns, ops, reported>>
    /\ SetEx(req[p].sessionId)
    /\ Written(req[p].sessionId)
    /\ sesFrame

\* the 500 response of honeypot_endpoint's except branch (lines 303-312)
ErrorResponse == [status |-> "error"]

\* get_metrics counting the notes instead of the messages
endpoint_get_metrics_notes(p) ==
    /\ pc[p] = "t_metrics"
    /\ LET s == get_session(req[p].sessionId) IN
       engagement_metrics' = [engagement_metrics EXCEPT ![p] =
          IF s = NoSession THEN NoSession
          ELSE [totalMessagesExchanged |-> Len(s.agent_notes)]]
    /\ pc' = [pc EXCEPT ![p] = "t_intelligence"]
    /\ UNCHANGED <<store, now, req, session, op, intelligence,
                   updated_session, resp, ret, turns, ops, accepted, reported>>
    /\ UNCHANGED <<ttl, idle>>
    /\ sesFrame

\* main.py line 264 and session_manager.get_metrics
endpoint_get_metrics(p) ==
    /\ pc[p] = "t_metrics"
    /\ LET s == get_session(req[p].sessionId) IN
       engagement_metrics' = [engagement_metrics EXCEPT ![p] =
          IF s = NoSession THEN NoSession
          ELSE [totalMessagesExchanged |-> s.message_count]]
    /\ pc' = [pc EXCEPT ![p] = "t_intelligence"]
    /\ UNCHANGED <<store, now, req, session, op, intelligence,
                   updated_session, resp, ret, turns, ops, accepted, reported>>
    /\ UNCHANGED <<ttl, idle>>
    /\ sesFrame

\* main.py lines 265-280 and session_manager.get_intelligence; with metrics
\* but no intelligence, line 273 raises and the request ends in the 500
endpoint_get_intelligence(p) ==
    /\ pc[p] = "t_intelligence"
    /\ LET s == get_session(req[p].sessionId)
           i == IF s = NoSession THEN NoSession ELSE s.extracted_intelligence IN
       /\ intelligence' = [intelligence EXCEPT ![p] = i]
       /\ IF engagement_metrics[p] # NoSession /\ i = NoSession
          THEN /\ pc' = [pc EXCEPT ![p] = "idle"]
               /\ resp' = [resp EXCEPT ![p] = ErrorResponse]
          ELSE /\ pc' = [pc EXCEPT ![p] = "t_updated"]
               /\ UNCHANGED resp
    /\ UNCHANGED <<store, now, req, session, op, engagement_metrics,
                   updated_session, ret, turns, ops, accepted, reported>>
    /\ UNCHANGED <<ttl, idle>>
    /\ sesFrame

\* main.py lines 283-296: the session is read once more and the response is
\* built; HoneypotResponse rejects missing metrics or intelligence, which
\* ends the request in the 500.
endpoint_build_response(p) ==
    /\ pc[p] = "t_updated"
    /\ LET s == get_session(req[p].sessionId) IN
       /\ updated_session' = [updated_session EXCEPT ![p] = s]
       /\ IF engagement_metrics[p] = NoSession \/ intelligence[p] = NoSession
          THEN /\ pc' = [pc EXCEPT ![p] = "idle"]
               /\ resp' = [resp EXCEPT ![p] = ErrorResponse]
          ELSE /\ pc' = [pc EXCEPT ![p] = "t_callback"]
               /\ resp' = [resp EXCEPT ![p] =
                     [status |-> "success",
                      scamDetected |-> session[p].scam_detected,
                      totalMessagesExchanged |->
                          engagement_metrics[p].totalMessagesExchanged,
                      extractedIntelligence |-> intelligence[p],
                      agentNotes |-> IF s = NoSession THEN <<>> ELSE s.agent_notes]]
    /\ UNCHANGED <<store, now, req, session, op, engagement_metrics,
                   intelligence, ret, turns, ops, accepted, reported>>
    /\ UNCHANGED <<ttl, idle>>
    /\ sesFrame

\* the callback reporting the session the endpoint read when the turn began
endpoint_callback_stale(p, outcome) ==
    /\ pc[p] = "t_callback"
    /\ reported' = [reported EXCEPT ![req[p].sessionId] =
          IF /\ should_trigger_callback(updated_session[p], max_conversation_turns)
             /\ SendResult(outcome)
          THEN @ + 1 ELSE @]
    /\ IF should_trigger_callback(updated_session[p], max_conversation_turns)
       THEN payload' = Payload(req[p].sessionId, session[p])
       ELSE UNCHANGED payload
    /\ pc' = [pc EXCEPT ![p] = "idle"]
    /\ UNCHANGED <<store, now, req, session, op, engagement_metrics,
                   intelligence, updated_session, resp, ret, turns, ops,
                   accepted>>
    /\ UNCHANGED <<ttl, idle, redis>>
    /\ UNCHANGED <<pol_pc, pol_session, pol_result, pol_posts, pol_outcome>>
    /\ UNCHANGED <<rotVars, max_conversation_turns, cacheVars, mergeVars,
                   exVars, accountVars>>

\* main.py line 299: trigger_callback_if_needed(updated_session); when the
\* policy says so the report is POSTed, and the response is returned.
endpoint_callback(p, outcome) ==
    /\ pc[p] = "t_callback"
    /\ reported' = [reported EXCEPT ![req[p].sessionId] =
          IF /\ should_trigger_callback(updated_session[p], max_conversation_turns)
             /\ SendResult(outcome)
          THEN @ + 1 ELSE @]
    /\ IF should_trigger_callback(updated_session[p], max_conversation_turns)
       THEN payload' = Payload(req[p].sessionId, updated_session[p])
       ELSE UNCHANGED payload
    /\ pc' = [pc EXCEPT ![p] = "idle"]
    /\ UNCHANGED <<store, now, req, session, op, engagement_metrics,
                   intelligence, updated_session, resp, ret, turns, ops,
                   accepted>>
    /\ UNCHANGED <<ttl, idle, redis>>
    /\ UNCHANGED <<pol_pc, pol_session, pol_result, pol_posts, pol_outcome>>
    /\ UNCHANGED <<rotVars, max_conversation_turns, cacheVars, mergeVars,
                   exVars, accountVars>>

\* most finalize requests in one behaviour
MaxFinalizes == 1

\* the responses of finalize_session (main.py lines 329-356)
FinalizeNotFound == [status |-> "error", code |-> 404]
FinalizeFailed == [status |-> "error", code |-> 500]
FinalizeSuccess(k, sess) ==
    [status |-> "success", sessionId |-> k,
     scamDetected |-> sess.scam_detected,
     totalMessages |-> sess.message_count]

\* finalize_session that reports a session only when it is a scam
finalize_session_if_scam(p, k, outcome) ==
    /\ pc[p] = "idle"
    /\ ops < MaxFinalizes
    /\ ops' = ops + 1
    /\ req' = [req EXCEPT ![p] = [sessionId |-> k]]
    /\ LET s == get_session(k) IN
       IF s = NoSession
          THEN /\ resp' = [resp EXCEPT ![p] = FinalizeNotFound]
               /\ UNCHANGED <<payload, reported>>
          ELSE IF ~s.scam_detected
          THEN /\ resp' = [resp EXCEPT ![p] = FinalizeFailed]
               /\ UNCHANGED <<payload, reported>>
          ELSE /\ payload' = Payload(k, s)
               /\ reported' = [reported EXCEPT ![k] =
                     IF SendResult(outcome) THEN @ + 1 ELSE @]
               /\ resp' = [resp EXCEPT ![p] =
                     IF SendResult(outcome) THEN FinalizeSuccess(k, s)
                     ELSE FinalizeFailed]
    /\ UNCHANGED <<store, now, pc, session, op, engagement_metrics,
                   intelligence, updated_session, ret, turns, accepted>>
    /\ UNCHANGED <<ttl, idle, redis>>
    /\ UNCHANGED <<pol_pc, pol_session, pol_result, pol_posts, pol_outcome>>
    /\ UNCHANGED <<rotVars, max_conversation_turns, cacheVars, mergeVars,
                   exVars, accountVars>>

\* POST /api/finalize-session/{session_id} (main.py lines 316-356):
\* get_session, 404 when there is none, else send_final_result_to_guvi of
\* the session read, whatever its scam_detected, and 200 or 500 by its result
finalize_session(p, k, outcome) ==
    /\ pc[p] = "idle"
    /\ ops < MaxFinalizes
    /\ ops' = ops + 1
    /\ req' = [req EXCEPT ![p] = [sessionId |-> k]]
    /\ LET s == get_session(k) IN
       IF s = NoSession
          THEN /\ resp' = [resp EXCEPT ![p] = FinalizeNotFound]
               /\ UNCHANGED <<payload, reported>>
          ELSE /\ payload' = Payload(k, s)
               /\ reported' = [reported EXCEPT ![k] =
                     IF SendResult(outcome) THEN @ + 1 ELSE @]
               /\ resp' = [resp EXCEPT ![p] =
                     IF SendResult(outcome) THEN FinalizeSuccess(k, s)
                     ELSE FinalizeFailed]
    /\ UNCHANGED <<store, now, pc, session, op, engagement_metrics,
                   intelligence, updated_session, ret, turns, accepted>>
    /\ UNCHANGED <<ttl, idle, redis>>
    /\ UNCHANGED <<pol_pc, pol_session, pol_result, pol_posts, pol_outcome>>
    /\ UNCHANGED <<rotVars, max_conversation_turns, cacheVars, mergeVars,
                   exVars, accountVars>>

\* create_session that kept a record already stored under the key
create_session_if_absent(p, k, scam_detected, scam_type) ==
    /\ pc[p] = "idle"
    /\ ops < MaxOps
    /\ ops' = ops + 1
    /\ req' = [req EXCEPT ![p] = [sessionId |-> k, scam_detected |-> scam_detected,
                                  scam_type |-> scam_type]]
    /\ IF redis = "client"
       THEN /\ store' = [store EXCEPT ![k] =
                  IF @ = NoSession
                  THEN NewSession(k, now, scam_detected, scam_type) ELSE @]
            /\ SetEx(k)
            /\ Written(k)
       ELSE UNCHANGED <<store, ttl, idle>>
    /\ now' = now + 1
    /\ accepted' = [accepted EXCEPT ![k] = 0]
    /\ reported' = [reported EXCEPT ![k] = 0]
    /\ UNCHANGED <<pc, session, op, engagement_metrics, intelligence,
                   updated_session, resp, ret, turns>>
    /\ sesFrame

\* a worker calls SessionManager.create_session directly (lines 59-96); req
\* keeps the arguments of the call
create_session(p, k, scam_detected, scam_type) ==
    /\ pc[p] = "idle"
    /\ ops < MaxOps
    /\ ops' = ops + 1
    /\ req' = [req EXCEPT ![p] = [sessionId |-> k, scam_detected |-> scam_detected,
                                  scam_type |-> scam_type]]
    /\ IF redis = "client"
       THEN /\ store' =
                  [store EXCEPT ![k] = NewSession(k, now, scam_detected, scam_type)]
            /\ SetEx(k)
            /\ Written(k)
       ELSE UNCHANGED <<store, ttl, idle>>
    /\ now' = now + 1
    /\ accepted' = [accepted EXCEPT ![k] = 0]
    /\ reported' = [reported EXCEPT ![k] = 0]
    /\ UNCHANGED <<pc, session, op, engagement_metrics, intelligence,
                   updated_session, resp, ret, turns>>
    /\ sesFrame

\* a worker calls add_message, add_intelligence or add_agent_note directly
CallMutation(p, k, kind, arg) ==
    /\ pc[p] = "idle"
    /\ ops < MaxOps
    /\ ops' = ops + 1
    /\ req' = [req EXCEPT ![p] = [sessionId |-> k]]
    /\ op' = [op EXCEPT ![p] = Mutation(kind, arg, "direct")]
    /\ pc' = [pc EXCEPT ![p] = "op_r1"]
    /\ UNCHANGED <<store, now, session, engagement_metrics, intelligence,
                   updated_session, resp, ret, turns, accepted, reported>>
    /\ UNCHANGED <<ttl, idle>>
    /\ sesFrame

\* a worker calls SessionManager.get_session directly (lines 98-115): one
\* redis.get, nothing written
CallGetSession(p, k) ==
    /\ pc[p] = "idle"
    /\ ops < MaxOps
    /\ ops' = ops + 1
    /\ session' = [session EXCEPT ![p] = get_session(k)]
    /\ UNCHANGED <<store, now, pc, req, op, engagement_metrics, intelligence,
                   updated_session, resp, ret, turns, accepted, reported,
                   ttl, idle>>
    /\ sesFrame

\* one tick of the clock: every stored key has one tick less to live, and
\* the store drops the keys whose lifetime (the ex= of their last set) is
\* over; idle counts the ticks since a key's last write, up to session_ttl
Tick ==
    /\ \E k \in Keys : ttl[k] > 0 \/ (idle[k] >= 0 /\ idle[k] < SessionTtl)
    /\ ttl' = [k \in Keys |-> IF ttl[k] > 0 THEN ttl[k] - 1 ELSE 0]
    /\ idle' = [k \in Keys |->
          IF idle[k] >= 0 /\ idle[k] < SessionTtl THEN idle[k] + 1 ELSE idle[k]]
    /\ store' = [k \in Keys |-> IF ttl[k] = 1 THEN NoSession ELSE store[k]]
    /\ UNCHANGED <<now, pc, req, session, op, engagement_metrics, intelligence,
                   updated_session, resp, ret, turns, ops, accepted, reported>>
    /\ sesFrame

\* the messages and intelligence direct callers pass
DirectMessages ==
    {[sender |-> "scammer", text |-> "verify_upi"], AgentMessage(TRUE)}
DirectIntel == {extract("verify_upi"), extract("pay_second")}

\* the steps of a mutation, shared by the endpoint and by direct callers
MutationStep(p) ==
    \/ mutation_get_session(p)
    \/ update_session_get(p)
    \/ update_session_set(p)

\* one worker's event loop serving honeypot turns one after the other
SesNext ==
    \E p \in EventLoop :
        \/ \E k \in Keys, text \in Texts, h \in BOOLEAN :
              HoneypotRequest(p, k, text, h)
        \/ endpoint_get_session(p)
        \/ endpoint_create_session(p)
        \/ MutationStep(p)
        \/ endpoint_get_metrics(p)
        \/ endpoint_get_intelligence(p)
        \/ endpoint_build_response(p)
        \/ \E outcome \in PostOutcomes : endpoint_callback(p, outcome)

\* what one worker does next with the SessionManager
StoreStep(p) ==
    \/ \E k \in Keys, sd \in BOOLEAN :
          create_session(p, k, sd, IF sd THEN "upi_scam" ELSE "not_scam")
    \/ \E k \in Keys, m \in DirectMessages :
          CallMutation(p, k, "add_message", m)
    \/ \E k \in Keys, i \in DirectIntel :
          CallMutation(p, k, "add_intelligence", i)
    \/ \E k \in Keys : CallMutation(p, k, "add_agent_note", "turn_note")
    \/ MutationStep(p)

\* several workers calling the SessionManager against the one store, their
\* reads and writes of the store interleaved
StoreNext ==
    \E p \in Procs : StoreStep(p)

\* one worker calling the SessionManager, one call after the other, while
\* time passes and the store expires keys
ExpiryNext ==
    \/ \E p \in EventLoop : StoreStep(p)
    \/ \E p \in EventLoop, k \in Keys : CallGetSession(p, k)
    \/ Tick

\* the session ids the operator asks to finalize
FinalizeKeys == {"s1"}

\* honeypot turns and manual finalize requests served by one event loop
FinalizeNext ==
    \/ SesNext
    \/ \E p \in EventLoop, k \in FinalizeKeys, outcome \in PostOutcomes :
          finalize_session(p, k, outcome)

\* one event loop serving the turns of one conversation
ConversationNext ==
    \E p \in EventLoop :
        \/ \E text \in RunTexts : ConversationRequest(p, text)
        \/ endpoint_get_session(p)
        \/ endpoint_create_session(p)
        \/ MutationStep(p)
        \/ endpoint_get_metrics(p)
        \/ endpoint_get_intelligence(p)
        \/ endpoint_build_response(p)
        \/ \E outcome \in PostOutcomes : endpoint_callback(p, outcome)

\* the sessions' variables while another component runs
SesIdle == SesInit

RotInit ==
    GroqInit /\ PolIdle /\ SesIdle /\ CacheIdle /\ MergeIdle /\ ExIdle
        /\ AccountIdle

SpecRotator == RotInit /\ [][RotNext]_vars

InitPolicy ==
    PolInit /\ RotIdle /\ SesIdle /\ CacheIdle /\ MergeIdle /\ ExIdle
        /\ AccountIdle

SpecPolicy == InitPolicy /\ [][PolNext]_vars

\* the policy's variables other than the setting, while the sessions run
PolQuiet ==
    /\ pol_session = NoSession
    /\ pol_pc = "idle"
    /\ pol_result = FALSE
    /\ pol_posts = 0
    /\ pol_outcome = "none"
    /\ payload = NoPayload

Init ==
    /\ SesInit
    /\ max_conversation_turns \in TurnLimits
    /\ PolQuiet
    /\ RotIdle
    /\ CacheIdle
    /\ MergeIdle
    /\ ExIdle
    /\ AccountIdle

Next == SesNext

Spec == Init /\ [][Next]_vars

\* a deployment whose turn limit lets the automatic report happen within
\* the turns of a behaviour
InitFinalize ==
    /\ SesInit
    /\ max_conversation_turns = SmallTurnLimit
    /\ PolQuiet
    /\ RotIdle
    /\ CacheIdle
    /\ MergeIdle
    /\ ExIdle
    /\ AccountIdle

SpecFinalize == InitFinalize /\ [][FinalizeNext]_vars

\* the configuration as shipped
InitConversation ==
    /\ SesInit
    /\ max_conversation_turns = DefaultMaxTurns
    /\ PolQuiet
    /\ RotIdle
    /\ CacheIdle
    /\ MergeIdle
    /\ ExIdle
    /\ AccountIdle

SpecConversation == InitConversation /\ [][ConversationNext]_vars

\* honeypot turns on a SessionManager built with or without its client
InitOutage ==
    /\ SesStart
    /\ redis \in RedisStates
    /\ PolIdle
    /\ RotIdle
    /\ CacheIdle
    /\ MergeIdle
    /\ ExIdle
    /\ AccountIdle

SpecOutage == InitOutage /\ [][Next]_vars

InitStore ==
    SesInit /\ PolIdle /\ RotIdle /\ CacheIdle /\ MergeIdle /\ ExIdle
        /\ AccountIdle

SpecStore == InitStore /\ [][StoreNext]_vars

SpecExpiry == InitStore /\ [][ExpiryNext]_vars

InitCache ==
    CacheInit /\ RotIdle /\ PolIdle /\ SesIdle /\ MergeIdle /\ ExIdle
        /\ AccountIdle

SpecCache == InitCache /\ [][CacheNext]_vars

InitMerge ==
    MergeInit /\ RotIdle /\ PolIdle /\ SesIdle /\ CacheIdle /\ ExIdle
        /\ AccountIdle

SpecMerge == InitMerge /\ [][MergeNext]_vars

InitExtract ==
    ExInit /\ CacheInit /\ RotIdle /\ PolIdle /\ SesIdle /\ MergeIdle
        /\ AccountIdle

SpecExtract == InitExtract /\ [][ExNext]_vars

InitAccounts ==
    AccountInit /\ RotIdle /\ PolIdle /\ SesIdle /\ CacheIdle /\ MergeIdle
        /\ ExIdle

SpecAccounts == InitAccounts /\ [][AccountNext]_vars

(***************************************************************************)
(* Claims about the credential rotator                                     *)
(***************************************************************************)

\* what the i-th get_client (in the order of the cursor reads) handed out
Issued(i) == ClientsGet(observed[i])

\* the r-th initialized credential (r from 0), in the order of the keys
NthInitialized(r) ==
    CHOOSE i \in clients : Cardinality({j \in clients : j < i}) = r

\* C5: strict round-robin over the initialized credentials: the i-th
\* get_client call (i from 0) returns initialized credential number i mod N,
\* also when some configured keys failed to initialize.
C5_StrictRoundRobin ==
    \A i \in 1..Len(observed) :
        Issued(i) = NthInitialized((i - 1) % ClientsLen)

\* C6: with at least one initialized credential every get_client returns a
\* credential, and get_client_with_retry returns one after a single
\* get_client call.
C6_NeverNoneWhenNonEmpty ==
    clients # {} =>
        /\ \A i \in 1..Len(observed) : Issued(i) # NoClient
        /\ \A t \in Threads :
              (tpc[t] = "idle" /\ tdone[t] = "get_client_with_retry")
                  => (tret[t] # NoClient /\ tcalls[t] = 1)

\* C7: with no initialized credential, get_client and get_client_with_retry
\* return None, never wait for the lock, never raise, never move the cursor.
C7_EmptyPoolReturnsNone ==
    clients = {} =>
        /\ current_index = 0
        /\ lock = NoThread
        /\ observed = <<>>
        /\ \A t \in Threads :
              /\ tpc[t] \in {"idle", "gc_check"}
              /\ tdone[t] # "none" => tret[t] = NoClient

\* C7 witness: on an empty pool one thread has finished a get_client and
\* another a get_client_with_retry.
C7_Witness ==
    /\ clients = {}
    /\ \E t1, t2 \in Threads :
          /\ tpc[t1] = "idle" /\ tdone[t1] = "get_client"
          /\ tpc[t2] = "idle" /\ tdone[t2] = "get_client_with_retry"

\* C8: the cursor values read by concurrent get_client calls are consecutive
\* values of the cycle (none twice in a cycle, none skipped), and once no
\* call is inside the critical section the cursor has advanced by the number
\* of calls, modulo the pool size.
C8_AtomicReadAdvance ==
    clients # {} =>
        /\ \A i \in 1..Len(observed) : observed[i] = (i - 1) % ClientsLen
        /\ (\A t \in Threads : tpc[t] \notin {"gc_read", "gc_advance"})
              => current_index = Len(observed) % ClientsLen

\* C8 witness: the cursor has gone round the cycle while one thread waits
\* for the lock that another holds inside the critical section.
C8_Witness ==
    /\ ClientsLen >= 2
    /\ Len(observed) > ClientsLen
    /\ \E t1, t2 \in Threads :
          /\ tpc[t1] = "gc_lock"
          /\ tpc[t2] \in {"gc_read", "gc_advance"}
          /\ lock = t2

(***************************************************************************)
(* Claims about the callback policy                                        *)
(***************************************************************************)

\* C9: for a session with scamDetected = true the policy evaluates to
\* "should report" on the very next evaluation, whatever the message count
\* and the accumulated intelligence.
C9_ScamAlwaysReports ==
    (pol_pc \in {"sending", "returned"} /\ pol_session.scam_detected)
        => (pol_pc = "sending" \/ pol_posts = 1)

\* C10: for a session with scamDetected = false the policy never evaluates
\* to "should report", for every message count and amount of intelligence,
\* so trigger_callback_if_needed sends nothing and returns False.
C10_NonScamNeverReports ==
    (pol_pc # "idle" /\ ~pol_session.scam_detected)
        => (pol_pc # "sending" /\ pol_posts = 0 /\ pol_result = FALSE)

\* C10 witness: the policy has been evaluated on a non-scam session that
\* passes every threshold of message count and intelligence.
C10_Witness ==
    /\ pol_pc = "returned"
    /\ ~pol_session.scam_detected
    /\ pol_session.message_count >= CountThreshold
    /\ TotalIntel(pol_session.extracted_intelligence) >= IntelThreshold

(***************************************************************************)
(* Claims about the sessions and the honeypot turn                         *)
(***************************************************************************)

\* C1: across the turns on one session key the final report is emitted to
\* the evaluator exactly once: after a report has been accepted for a
\* session, no later turn on it emits another.
C1_ReportedOnce == \A k \in Keys : reported[k] <= 1

\* C2: a mutation is get, modify, put, and the put is not conditional on
\* the store being as it was read: the put of add_message stores the
\* transcript and count computed from its own first read, the put of
\* add_intelligence the union computed from its own first read, whatever
\* was stored in between, and the call returns True. (The later put wins;
\* C2_Witness is the state where two accepted appends left one message.)
C2_LaterPutWins ==
    [][\A p \in Procs :
          (pc[p] = "op_w" /\ pc'[p] # "op_w") =>
              /\ ret'[p] = TRUE
              /\ op[p].kind = "add_message" =>
                    /\ store'[req[p].sessionId].conversation_history
                          = op[p].data.conversation_history
                    /\ store'[req[p].sessionId].message_count
                          = op[p].data.message_count
              /\ op[p].kind = "add_intelligence" =>
                    store'[req[p].sessionId].extracted_intelligence
                        = op[p].data.extracted_intelligence]_vars

\* C2 witness: two add_message calls on one key have both returned True
\* since its create, nothing is in flight, and the stored session holds one
\* message.
C2_Witness ==
    \E k \in Keys :
        /\ \A p \in Procs : pc[p] = "idle"
        /\ store[k] # NoSession
        /\ accepted[k] = 2
        /\ store[k].message_count = 1
        /\ Len(store[k].conversation_history) = 1

\* C3: in every stored session message_count equals the length of
\* conversation_history, under every interleaving of the gets and puts of
\* concurrent create, add_message, add_intelligence and add_agent_note.
C3_CountIsLength ==
    \A k \in Keys :
        store[k] # NoSession =>
            store[k].message_count = Len(store[k].conversation_history)

\* C3 witness: a message has been stored while another mutation of the same
\* key, which read the session before that, is about to put its stale copy.
C3_Witness ==
    \E k \in Keys, q \in Procs :
        /\ pc[q] = "op_w"
        /\ req[q].sessionId = k
        /\ op[q].kind # "add_message"
        /\ store[k] # NoSession
        /\ store[k].message_count = 1
        /\ op[q].session_dict.message_count = 0

\* C4: once the stored session of a key has scamDetected = true, no later
\* honeypot turn on that key leaves it stored with scamDetected = false
\* (the key neither expiring nor being deleted in between).
C4_ScamDetectedNeverCleared ==
    [][\A k \in Keys :
          (/\ store[k] # NoSession
           /\ store[k].scam_detected
           /\ store'[k] # NoSession) => store'[k].scam_detected]_vars

(***************************************************************************)
(* Claims about the store's mutations, its records and their lifetime      *)
(***************************************************************************)

\* C11: add_message, add_intelligence and add_agent_note on a key with no
\* stored session (never created, or expired, also between the mutation's
\* two reads) return False and write nothing: the key is still absent and
\* no other key or lifetime has changed.
C11_AbsentSessionNoWrite ==
    [][\A p \in Procs :
          (/\ pc[p] \in {"op_r1", "op_r2"}
           /\ store[req[p].sessionId] = NoSession
           /\ pc'[p] # pc[p]) =>
              /\ pc'[p] = "idle"
              /\ ret'[p] = FALSE
              /\ store' = store
              /\ ttl' = ttl]_vars

\* C11 witness: a mutation called on a key that was never written has
\* returned, False, and the key is absent.
C11_Witness ==
    \E p \in Procs :
        /\ pc[p] = "idle"
        /\ req[p] # NoRequest
        /\ idle[req[p].sessionId] = -1
        /\ store[req[p].sessionId] = NoSession
        /\ ret[p] = FALSE

\* C12: with the operations on a key one after the other, the
\* totalMessagesExchanged that get_metrics reports equals the number of
\* add_message calls on the key that returned True since its last create.
C12_MetricsCountAccepted ==
    \A p \in EventLoop :
        (pc[p] = "t_intelligence" /\ engagement_metrics[p] # NoSession) =>
            engagement_metrics[p].totalMessagesExchanged
                = accepted[req[p].sessionId]

\* C12 witness: get_metrics has answered on a session that took the four
\* messages of two turns since its create.
C12_Witness ==
    \E p \in EventLoop :
        /\ pc[p] = "t_intelligence"
        /\ engagement_metrics[p] # NoSession
        /\ engagement_metrics[p].totalMessagesExchanged = 4
        /\ accepted[req[p].sessionId] = 4

\* the five intelligence categories of a stored record
Categories ==
    {"bankAccounts", "upiIds", "phishingLinks", "phoneNumbers",
     "suspiciousKeywords"}

\* the stored record is the one create(key, scamDetected, scamType) writes
IsFresh(record, key, scam_detected, scam_type) ==
    /\ record # NoSession
    /\ record.session_id = key
    /\ record.scam_detected = scam_detected
    /\ record.scam_type = scam_type
    /\ record.conversation_history = <<>>
    /\ record.message_count = 0
    /\ record.agent_notes = <<>>
    /\ DOMAIN record.extracted_intelligence = Categories
    /\ \A c \in Categories : record.extracted_intelligence[c] = {}

\* C13: create_session(key, scamDetected, scamType) leaves under the key a
\* session with empty transcript, five empty intelligence categories,
\* message count 0, no notes, the given scamDetected and scamType and the
\* full lifetime, whatever was stored under the key before; other keys are
\* left alone.
C13_CreateStoresFresh ==
    [][\A p \in Procs :
          (ops' # ops /\ pc' = pc /\ req'[p] # req[p]) =>
              LET k == req'[p].sessionId IN
              /\ IsFresh(store'[k], k, req'[p].scam_detected, req'[p].scam_type)
              /\ ttl'[k] = SessionTtl
              /\ \A j \in Keys \ {k} : store'[j] = store[j]]_vars

\* C13 witness: a mutation of the key has returned True, and the record now
\* stored under the key is the fresh one of a later create_session.
C13_Witness ==
    \E p, q \in Procs :
        /\ p # q
        /\ pc[p] = "idle" /\ pc[q] = "idle"
        /\ req[p] # NoRequest /\ req[q] # NoRequest
        /\ DOMAIN req[p] = {"sessionId"}
        /\ ret[p] = TRUE
        /\ "scam_detected" \in DOMAIN req[q]
        /\ req[q].sessionId = req[p].sessionId
        /\ IsFresh(store[req[q].sessionId], req[q].sessionId,
                   req[q].scam_detected, req[q].scam_type)

\* C14: a successful add_intelligence leaves every category equal to the
\* union of the values stored before and the incoming values, nothing
\* removed; hence the intelligence of every scammer message in a session's
\* transcript is in the session: after two turns yielding the payment
\* handles h1 then h2, upiIds holds both.
C14_MergeIsUnion ==
    /\ [][\A p \in EventLoop :
            (pc[p] = "op_w" /\ op[p].kind = "add_intelligence"
                /\ pc'[p] # "op_w") =>
                \A c \in Categories :
                    store'[req[p].sessionId].extracted_intelligence[c]
                        = store[req[p].sessionId].extracted_intelligence[c]
                            \cup op[p].arg[c]]_vars
    /\ [](\A k \in Keys :
            store[k] # NoSession =>
                \A i \in 1..Len(store[k].conversation_history) :
                    store[k].conversation_history[i].sender = "scammer" =>
                        \A c \in Categories :
                            extract(store[k].conversation_history[i].text)[c]
                                \subseteq store[k].extracted_intelligence[c])

\* C14 witness: two turns on one session brought first@paytm, then
\* second@phonepe, and the session holds both handles.
C14_Witness ==
    \E k \in Keys :
        /\ store[k] # NoSession
        /\ Len(store[k].conversation_history) = 4
        /\ store[k].conversation_history[1].text = "verify_upi"
        /\ store[k].conversation_history[3].text = "pay_second"
        /\ store[k].extracted_intelligence.upiIds
              = {"first@paytm", "second@phonepe"}

\* the stored record after add_intelligence(intel) has run alone on it
Merged(record, intel) == DictUpdate(record, add_intelligence_data(record, intel))

\* C15: merging is idempotent: for every stored session and every
\* intelligence set S, add_intelligence(S) twice in sequence leaves the same
\* sets per category as add_intelligence(S) once; and a merge of values
\* that are all stored already changes no category.
C15_MergeIdempotent ==
    /\ [](\A k \in Keys :
            store[k] # NoSession =>
                \A text \in Texts :
                    Merged(Merged(store[k], extract(text)), extract(text))
                            .extracted_intelligence
                        = Merged(store[k], extract(text)).extracted_intelligence)
    /\ [][\A p \in EventLoop :
            (/\ pc[p] = "op_w" /\ op[p].kind = "add_intelligence"
             /\ pc'[p] # "op_w"
             /\ \A c \in Categories :
                   op[p].arg[c] \subseteq
                       store[req[p].sessionId].extracted_intelligence[c]) =>
                store'[req[p].sessionId].extracted_intelligence
                    = store[req[p].sessionId].extracted_intelligence]_vars

\* C15 witness: the second of two turns with the same text has merged the
\* same intelligence again, and the session holds what one merge left.
C15_Witness ==
    \E p \in EventLoop, k \in Keys :
        /\ pc[p] = "op_r1"
        /\ op[p].stage \in {"note", "msg1"}
        /\ req[p].sessionId = k
        /\ req[p].text = "verify_upi"
        /\ store[k] # NoSession
        /\ Len(store[k].conversation_history) = 2
        /\ store[k].conversation_history[1].text = "verify_upi"
        /\ store[k].extracted_intelligence = extract("verify_upi")

\* C16: every successful write of a session (create_session, add_message,
\* add_intelligence, add_agent_note) gives the key the full session_ttl
\* again and reads do not: a written key is stored exactly while less than
\* session_ttl has passed since its last write, so it is never absent
\* between writes less than session_ttl apart and it expires session_ttl
\* after the last one.
C16_ExpiresTtlAfterLastWrite ==
    \A k \in Keys :
        /\ idle[k] = -1 => store[k] = NoSession
        /\ idle[k] >= 0 => (store[k] # NoSession <=> idle[k] < SessionTtl)
        /\ store[k] # NoSession => ttl[k] = SessionTtl - idle[k]

\* C16 witness: the session of the first create_session took a message
\* later and is still stored, while a session created after it has lived
\* its whole lifetime and is gone.
C16_Witness ==
    \E k \in Keys :
        /\ store[k] # NoSession
        /\ store[k].start_time = 0
        /\ idle[k] = SessionTtl - 1
        /\ store[k].message_count = 1
        /\ \A j \in Keys \ {k} : idle[j] = SessionTtl /\ store[j] = NoSession

\* sequence a is a prefix of sequence b
IsPrefix(a, b) ==
    /\ Len(a) <= Len(b)
    /\ \A i \in 1..Len(a) : a[i] = b[i]

\* C17: the transcript is append-only: with the operations on a key one
\* after the other and no create in between, the transcript before each
\* step is a prefix of the transcript after it, and a successful
\* add_message extends it by exactly the given message, at the end.
C17_TranscriptAppendOnly ==
    [][\A k \in Keys :
          (store[k] # NoSession /\ \A p \in EventLoop : pc[p] # "t_create") =>
              /\ store'[k] # NoSession
              /\ IsPrefix(store[k].conversation_history,
                          store'[k].conversation_history)
              /\ \A p \in EventLoop :
                    (/\ pc[p] = "op_w" /\ pc'[p] # "op_w"
                     /\ op[p].kind = "add_message"
                     /\ req[p].sessionId = k) =>
                        store'[k].conversation_history
                            = Append(store[k].conversation_history, op[p].arg)]_vars

\* C17 witness: the second turn on a session has appended the scammer's
\* message and the agent's reply behind those of the first turn.
C17_Witness ==
    \E p \in EventLoop, k \in Keys :
        /\ pc[p] = "t_metrics"
        /\ req[p].sessionId = k
        /\ store[k] # NoSession
        /\ Len(store[k].conversation_history) = 4
        /\ store[k].conversation_history[1].text = "verify_upi"
        /\ store[k].conversation_history[3]
              = [sender |-> "scammer", text |-> req[p].text]
        /\ store[k].conversation_history[4] = AgentMessage(TRUE)

\* C18: a honeypot turn runs detect_scam and create_session only when no
\* session is stored under the request's key: a turn on a key whose session
\* exists never re-creates it, so the transcript, intelligence, notes and
\* message count gathered so far survive the turn.
C18_CreateOnlyWhenAbsent ==
    [][\A p \in EventLoop :
          (pc[p] = "t_create" /\ pc'[p] # "t_create") =>
              store[req[p].sessionId] = NoSession]_vars

(***************************************************************************)
(* Claims about the bounded cache                                          *)
(***************************************************************************)

\* the set calls so far were on pairwise distinct keys
DistinctSets ==
    \A i, j \in 1..Len(set_log) : i # j => set_log[i] # set_log[j]

\* C19: for a cache of capacity C >= 1, after set on C+1 distinct keys and
\* no get, the key set first is not in the cache and the other C keys are.
C19_FirstInsertedEvicted ==
    (gets = 0 /\ clears = 0 /\ DistinctSets /\ Len(set_log) = max_size + 1) =>
        /\ set_log[1] \notin CachedKeys
        /\ \A i \in 2..Len(set_log) : set_log[i] \in CachedKeys

\* C19 witness: a cache of the largest capacity has taken one key more than
\* it holds, all distinct, and no get.
C19_Witness ==
    /\ max_size = MaxCacheSize
    /\ gets = 0
    /\ clears = 0
    /\ DistinctSets
    /\ Len(set_log) = max_size + 1
    /\ Len(cache) = max_size

C21_SizeWithinCapacity ==
    /\ Len(cache) <= max_size
    /\ Cardinality(CachedKeys) = Len(cache)

\* C21 witness: a full cache of the largest capacity that has evicted an
\* entry, been cleared, and been filled again.
C21_Witness ==
    /\ max_size = MaxCacheSize
    /\ Len(cache) = max_size
    /\ clears >= 1
    /\ evicted # NoEviction

(***************************************************************************)
(* Claims about the extractor                                              *)
(***************************************************************************)

\* number of positions of a list holding the value
Occurrences(seq, v) == Cardinality({i \in DOMAIN seq : seq[i] = v})

\* C22: for all results P of the regex pass and G of the LLM pass, the
\* merged result holds, per category, exactly the values of P and of G, each
\* of them once.
C22_MergeIsSetUnion ==
    merged # NotComputed =>
        \A f \in Fields :
            LET union == Range(merge_regex[f]) \cup Range(merge_llm[f])
            IN  /\ Range(merged[f]) = union
                /\ \A v \in union : Occurrences(merged[f], v) = 1

\* C22 witness: a merge where one pass repeated a value, both passes found
\* one value, and the LLM pass found one more.
C22_Witness ==
    /\ merged # NotComputed
    /\ \E f \in Fields :
        /\ Len(merge_regex[f]) > Cardinality(Range(merge_regex[f]))
        /\ Range(merge_regex[f]) \cap Range(merge_llm[f]) # {}
        /\ Range(merge_llm[f]) \ Range(merge_regex[f]) # {}
        /\ Len(merged[f]) = 2

\* C23: in the annotated merge every value of P or G yields exactly one item
\* of its category; a value of both passes is tagged "both" with confidence
\* 0.95, a value of the regex pass alone has 0.75, a value of the LLM pass
\* alone has 0.85; and the simple format of the annotated result holds the
\* values of the plain merge.
C23_AnnotatedMergeTiers ==
    /\ enhanced # NotComputed =>
        \A f \in Fields :
            LET P == Range(merge_regex[f])
                G == Range(merge_llm[f])
                items == enhanced[f]
            IN  /\ \A i \in DOMAIN items : items[i].value \in P \cup G
                /\ \A v \in P \cup G :
                    /\ Cardinality({i \in DOMAIN items :
                                        items[i].value = v}) = 1
                    /\ \A i \in DOMAIN items :
                        items[i].value = v =>
                            /\ v \in P \cap G =>
                                /\ items[i].source = "both"
                                /\ items[i].confidence = 95
                            /\ v \in P \ G =>
                                /\ items[i].source = "regex"
                                /\ items[i].confidence = 75
                            /\ v \in G \ P =>
                                /\ items[i].source = "llm"
                                /\ items[i].confidence = 85
    /\ simple # NotComputed =>
        \A f \in Fields :
            /\ Range(simple[f]) = Range(merge_regex[f]) \cup Range(merge_llm[f])
            /\ \A v \in Range(simple[f]) : Occurrences(simple[f], v) = 1
            /\ merged # NotComputed =>
                /\ Range(simple[f]) = Range(merged[f])
                /\ Len(simple[f]) = Len(merged[f])

\* C23 witness: an annotated result with an item of each tier, converted to
\* the simple format next to the plain merge of the same pair.
C23_Witness ==
    /\ simple # NotComputed
    /\ merged # NotComputed
    /\ \A src \in {"both", "regex", "llm"} :
        \E f \in Fields : \E i \in DOMAIN enhanced[f] :
            enhanced[f][i].source = src
    /\ \E f \in Fields :
        Len(merge_regex[f]) > Cardinality(Range(merge_regex[f]))

\* the value the cache holds under a key
CachedValue(key) == cache[IndexOf(key)].value

\* C24: extract looks the message's fingerprint up in the cache before
\* either pass; on a hit no pass runs and the cached result is returned; on
\* a miss the merged result is in the cache under the fingerprint before
\* extract returns it.
C24_CacheBeforePasses ==
    /\ cache_key = generate_message_hash(ex_message)
    /\ \A i \in DOMAIN ex_trace :
        ex_trace[i] \in {"regex", "llm"} =>
            /\ i > 1
            /\ ex_trace[1] = "cache_get"
            /\ cached_result = NoValue
    /\ (ex_pc = "done" /\ cached_result # NoValue) =>
        /\ ex_trace = <<"cache_get", "return">>
        /\ regex_intel = NotComputed
        /\ llm_intel = NotComputed
        /\ ex_ret = cached_result
        /\ cache_key \in CachedKeys
        /\ CachedValue(cache_key) = ex_ret
    /\ (ex_pc = "return" /\ cached_result = NoValue) =>
        /\ cache_key \in CachedKeys
        /\ CachedValue(cache_key) = final_intel
    /\ (ex_pc = "done" /\ cached_result = NoValue) =>
        /\ ex_trace = <<"cache_get", "regex", "llm", "merge", "cache_set",
                        "return">>
        /\ ex_ret \in _merge_intelligence(regex_intel, llm_intel)
        /\ cache_key \in CachedKeys
        /\ CachedValue(cache_key) = ex_ret

\* C24 witness: a second call with the same message returned from the cache
\* what the first call had merged from both passes.
C24_Witness ==
    /\ ex_pc = "done"
    /\ ex_calls = 2
    /\ cached_result # NoValue
    /\ Len(set_log) = 1
    /\ ex_ret # NotComputed
    /\ Len(ex_ret.upiIds) = 2

\* C25: when the LLM pass fails (no client, service error, timeout,
\* malformed answer) it contributes an empty result and extract returns the
\* values of the regex pass, never a failure.
C25_LlmFailureFallsBack ==
    (llm_outcome \notin {"none", "ok"}) =>
        /\ llm_intel = ExtractedIntelligence
        /\ final_intel # NotComputed =>
            \A f \in Fields : Range(final_intel[f]) = Range(regex_intel[f])
        /\ ex_pc = "done" =>
            /\ ex_ret # NotComputed
            /\ \A f \in Fields : Range(ex_ret[f]) = Range(regex_intel[f])

\* C25 witness: a call whose LLM pass failed after answering, returning the
\* regex pass's values.
C25_Witness ==
    /\ ex_pc = "done"
    /\ llm_outcome = "malformed"
    /\ Len(regex_intel.upiIds) = 2
    /\ ex_ret.upiIds = <<"first@paytm">>
    /\ ex_calls = MaxExtractCalls

(***************************************************************************)
(* Claims about the degraded store, the report and the turn count          *)
(***************************************************************************)

\* C26: when the store is unavailable (reads find nothing, writes are
\* skipped), a well-formed honeypot request still gets a successful
\* response; the generic failure response is not caused by the store.
C26_OutageStillSucceeds ==
    \A p \in EventLoop :
        (redis = "none" /\ resp[p] # NoResponse) => resp[p].status = "success"

\* C27: one invocation of the report sender makes at most one POST, and
\* returns true exactly when the evaluator answered 200; any other status,
\* a timeout or another error returns false without another attempt.
C27_OnePostTrueOn200 ==
    /\ pol_posts <= 1
    /\ pol_posts = 0 => (pol_outcome = "none" /\ pol_result = FALSE)
    /\ pol_posts >= 1 =>
        /\ pol_pc = "returned"
        /\ pol_result = (pol_outcome = "200")
        /\ payload = Payload(pol_session.session_id, pol_session)

\* C27 witness: the sender returned false after a single POST that timed
\* out.
C27_Witness ==
    /\ pol_pc = "returned"
    /\ pol_posts = 1
    /\ pol_outcome = "timeout"
    /\ pol_result = FALSE
    /\ payload.totalMessagesExchanged >= CountThreshold

\* the notes in order with " | " between them
RECURSIVE JoinedWithBar(_)
JoinedWithBar(notes) ==
    IF Len(notes) = 1 THEN notes[1]
    ELSE JoinedWithBar(SubSeq(notes, 1, Len(notes) - 1))
            \o " | " \o notes[Len(notes)]

\* the agentNotes of a report on these notes
ExpectedNotes(notes) ==
    IF notes = <<>> THEN "No additional notes" ELSE JoinedWithBar(notes)

\* the report a turn of worker p emits describes the stored session k as it
\* is after the turn's two messages
ReportOfTurn(p, k, body) ==
    LET s == store[k]
        n == Len(s.conversation_history)
    IN  /\ pc[p] = "t_callback"
        /\ s # NoSession
        /\ DOMAIN body = {"sessionId", "scamDetected",
                          "totalMessagesExchanged", "extractedIntelligence",
                          "agentNotes"}
        /\ body.sessionId = k
        /\ body.scamDetected = s.scam_detected
        /\ body.totalMessagesExchanged = s.message_count
        /\ n >= 2
        /\ s.message_count = n
        /\ s.conversation_history[n - 1].sender = "scammer"
        /\ s.conversation_history[n - 1].text = req[p].text
        /\ s.conversation_history[n] = AgentMessage(session[p].scam_detected)
        /\ DOMAIN body.extractedIntelligence = Categories
        /\ \A c \in Categories :
            /\ body.extractedIntelligence[c] = s.extracted_intelligence[c]
            /\ extract(req[p].text)[c] \subseteq body.extractedIntelligence[c]
        /\ body.agentNotes = ExpectedNotes(s.agent_notes)

\* C28: within a turn the policy is evaluated after both add_message calls,
\* on a session read after them: the report's totalMessagesExchanged, five
\* categories and notes are those of the stored session with the turn's two
\* messages and merged intelligence, and agentNotes is the notes in order
\* joined by " | ", or "No additional notes" when there are none.
C28_ReportIsOfUpdatedSession ==
    /\ [][\A p \in EventLoop :
            (payload' # payload) =>
                ReportOfTurn(p, req[p].sessionId, payload')]_vars
    /\ [](Payload("s1", NewSession("s1", 0, TRUE, "upi_scam")).agentNotes
            = "No additional notes")

\* C28 witness: the report of a second turn, with four messages, the
\* intelligence of both turns and three notes.
C28_Witness ==
    /\ payload # NoPayload
    /\ pc[1] = "idle"
    /\ payload.totalMessagesExchanged = 4
    /\ store[payload.sessionId].message_count = 4
    /\ payload.extractedIntelligence.upiIds = {"first@paytm", "second@phonepe"}
    /\ payload.agentNotes = "initial_detection | turn_note | turn_note"

\* every turn so far was a turn on key k: the store works and holds no
\* other key (a turn stores the key it is about, and nothing deletes one)
AllTurnsOn(k) ==
    /\ redis = "client"
    /\ store[k] # NoSession
    /\ \A j \in Keys \ {k} : store[j] = NoSession

\* C29: for sequential turns on a fresh key with a working store, the
\* response to the i-th turn reports totalMessagesExchanged = 2 * i.
C29_TurnReportsTwicePerTurn ==
    \A p \in EventLoop :
        (/\ pc[p] \in {"t_callback", "idle"}
         /\ resp[p] # NoResponse
         /\ AllTurnsOn(req[p].sessionId)) =>
            /\ resp[p].status = "success"
            /\ resp[p].totalMessagesExchanged = 2 * turns

(***************************************************************************)
(* Claims about sessions under different keys                              *)
(***************************************************************************)

\* C30: sessions under different keys are independent: a step of an
\* operation on one key, in any interleaving with operations on another,
\* changes the stored session and the lifetime of its own key only, and the
\* record under a key is always a record of that key.
C30_KeysIndependent ==
    /\ [][\A k \in Keys :
            (store'[k] # store[k] \/ ttl'[k] # ttl[k]) =>
                /\ \A j \in Keys \ {k} :
                        store'[j] = store[j] /\ ttl'[j] = ttl[j]
                /\ \E p \in Procs :
                    /\ req'[p] # NoRequest
                    /\ req'[p].sessionId = k
                    /\ \/ pc[p] = "op_w" /\ pc'[p] # "op_w"
                       \/ pc[p] = "idle" /\ ops' = ops + 1]_vars
    /\ [](\A k \in Keys : store[k] # NoSession => store[k].session_id = k)

\* C30 witness: one worker's add_message on s1 is stored, with the session
\* the other worker created under s2 untouched beside it.
C30_Witness ==
    /\ req[1] # NoRequest
    /\ req[2] # NoRequest
    /\ req[1].sessionId = "s1"
    /\ req[2].sessionId = "s2"
    /\ ret[1] = TRUE
    /\ store["s1"] # NoSession
    /\ store["s2"] # NoSession
    /\ store["s1"].message_count = 1
    /\ store["s2"] = NewSession("s2", store["s2"].start_time,
                                 store["s2"].scam_detected,
                                 store["s2"].scam_type)
    /\ store["s2"].start_time > store["s1"].start_time

(***************************************************************************)
(* Claims about the regex pass                                             *)
(***************************************************************************)

\* C31: for the message "Your account will be blocked. Verify by sending
\* ... to verify@upi" the regex pass alone yields upiIds = [verify@upi] and
\* keywords including "blocked" and "verify", so the merged result holds
\* verify@upi even when the LLM pass yields nothing.
C31_VerifyUpiExtracted ==
    (/\ ex_pc = "done"
     /\ ex_message = "blocked_verify_upi"
     /\ cached_result = NoValue
     /\ llm_intel = ExtractedIntelligence) =>
        /\ regex_intel.upiIds = <<"verify@upi">>
        /\ {"blocked", "verify"} \subseteq Range(regex_intel.suspiciousKeywords)
        /\ "verify@upi" \in Range(ex_ret.upiIds)

\* C32: the regex pass reports a standalone run of n digits as a bank
\* account exactly when 9 <= n <= 18 and n # 10.
C32_AccountDigitRange ==
    account_pc = "returned" =>
        \A i \in DOMAIN digit_runs :
            (\E j \in DOMAIN bank_accounts : bank_accounts[j] = digit_runs[i])
                <=> (9 <= digit_runs[i] /\ digit_runs[i] <= 18
                        /\ digit_runs[i] # 10)

\* C33: should_trigger_callback is true exactly when the session is a scam
\* and (its message count is at least 15, or at least
\* max_conversation_turns, or it holds at least 3 bank accounts, payment
\* handles, links and phone numbers together and its message count is at
\* least 10); suspicious keywords never count towards the 3.
C33_PolicyExactly ==
    pol_pc \in {"sending", "returned"} =>
        ((pol_pc = "sending" \/ pol_posts = 1) <=>
            /\ pol_session.scam_detected
            /\ \/ pol_session.message_count >= 15
               \/ pol_session.message_count >= max_conversation_turns
               \/ /\ Cardinality(pol_session.extracted_intelligence.bankAccounts)
                       + Cardinality(pol_session.extracted_intelligence.upiIds)
                       + Cardinality(pol_session.extracted_intelligence.phishingLinks)
                       + Cardinality(pol_session.extracted_intelligence.phoneNumbers)
                           >= 3
                  /\ pol_session.message_count >= 10)

\* C33 witness: the policy has declined a scam session of 10 to 14 messages
\* that holds one payment handle and two suspicious keywords.
C33_Witness ==
    /\ pol_pc = "returned"
    /\ pol_posts = 0
    /\ pol_session.scam_detected
    /\ pol_session.message_count >= 10
    /\ pol_session.message_count < max_conversation_turns
    /\ TotalIntel(pol_session.extracted_intelligence) = 1
    /\ Cardinality(pol_session.extracted_intelligence.suspiciousKeywords) = 2

\* C34: no report is ever POSTed for a session whose stored scamDetected is
\* false, neither by the automatic path of a turn nor by the manual
\* finalize-session operation: every payload sent says scamDetected = true.
C34_NoReportForNonScam ==
    payload # NoPayload => payload.scamDetected

\* C34 as the code has it: a turn on a session stored with scamDetected false
\* POSTs nothing; finalize-session POSTs the report of every session it
\* finds, whatever its scamDetected, and nothing only when there is no
\* session under the key.
C34_AutomaticOnlyForScam ==
    [][\A p \in EventLoop :
          /\ (/\ pc[p] = "t_callback"
              /\ pc'[p] = "idle"
              /\ store[req[p].sessionId] # NoSession
              /\ ~store[req[p].sessionId].scam_detected)
                 => payload' = payload
          /\ (pc[p] = "idle" /\ ops' = ops + 1) =>
                IF store[req'[p].sessionId] = NoSession
                THEN payload' = payload
                ELSE payload' = Payload(req'[p].sessionId,
                                        store[req'[p].sessionId])]_vars

\* C34 witness: finalize-session has POSTed the report of a stored session
\* whose scamDetected is false.
C34_Witness ==
    \E p \in EventLoop :
        /\ pc[p] = "idle"
        /\ ops > 0
        /\ resp[p] \in {FinalizeFailed} \cup
              {FinalizeSuccess(k, store[k]) : k \in {j \in Keys : store[j] # NoSession}}
        /\ store[req[p].sessionId] # NoSession
        /\ ~store[req[p].sessionId].scam_detected
        /\ payload = Payload(req[p].sessionId, store[req[p].sessionId])

\* C35: no mutation other than create writes a record under a key that is
\* absent from the store at the moment of the write: the put of an
\* add_message, add_intelligence or add_agent_note whose session expired or
\* was deleted while the operation was in flight leaves the key absent.
C35_NoResurrection ==
    [][\A p \in Procs :
          (/\ pc[p] = "op_w"
           /\ pc'[p] # "op_w"
           /\ store[req[p].sessionId] = NoSession)
              => store'[req[p].sessionId] = NoSession]_vars

\* the fields of the stored record that a mutation of this kind may change
OwnFields(kind) ==
    CASE kind = "add_message" -> {"conversation_history", "message_count"}
      [] kind = "add_intelligence" -> {"extracted_intelligence"}
      [] kind = "add_agent_note" -> {"agent_notes"}

\* C36: each field-level mutation changes only its own fields of the stored
\* record: add_message the history and the message count, add_intelligence
\* the intelligence, add_agent_note the notes; none changes session_id,
\* start_time, scam_detected or scam_type, or another key; the steps before
\* the put write nothing, so an operation that returns False leaves the
\* store as it was. The record compared is the one stored when the put
\* happens.
C36_OwnFieldsOnly ==
    [][\A p \in Procs :
          LET k == req[p].sessionId IN
          /\ (pc[p] \in {"op_r1", "op_r2"} /\ pc'[p] # pc[p]) => store' = store
          /\ (pc[p] \in {"op_r1", "op_r2", "op_w"} /\ pc'[p] = "idle"
                /\ ret'[p] = FALSE) => store' = store
          /\ (pc[p] = "op_w" /\ pc'[p] # "op_w" /\ store[k] # NoSession) =>
                /\ \A j \in Keys \ {k} : store'[j] = store[j]
                /\ \A f \in DOMAIN store[k] \ OwnFields(op[p].kind) :
                      store'[k][f] = store[k][f]
                /\ \A f \in {"session_id", "start_time", "scam_detected",
                             "scam_type"} :
                      store'[k][f] = store[k][f]]_vars

\* C37: with max_conversation_turns = 50 and a working store, in the turns
\* of one conversation on a fresh scam session that is never re-created, no
\* automatic report is attempted before the 5th turn (message count 10), one
\* is attempted on the 8th turn (message count 16) at the latest, and from
\* the first attempt on every turn attempts one: after each turn the last
\* payload POSTed, if any, is the one of that turn.
C37_FirstReportWindow ==
    \A p \in EventLoop :
        (pc[p] = "idle" /\ turns >= 1 /\ store[RunKey].scam_detected) =>
            /\ turns < 5 => payload = NoPayload
            /\ turns >= 8 => payload # NoPayload
            /\ payload # NoPayload =>
                  /\ payload.sessionId = RunKey
                  /\ payload.totalMessagesExchanged = 2 * turns
                  /\ payload.totalMessagesExchanged >= 10

\* C37 witness: the 9th turn of a conversation that yielded one payment
\* handle and nothing else has attempted its report.
C37_Witness ==
    \E p \in EventLoop :
        /\ pc[p] = "idle"
        /\ turns = 9
        /\ store[RunKey].scam_detected
        /\ TotalIntel(store[RunKey].extracted_intelligence) = 1
        /\ payload # NoPayload
        /\ payload.totalMessagesExchanged = 18

\* C38: extract caches its merged result also when the LLM pass failed and
\* contributed nothing; while that entry is in the cache, every later
\* extract of the same message returns it, the values of the regex pass
\* alone, without running the LLM pass, whatever the service would answer.
C38_FailedPassIsCached ==
    /\ (ex_pc \in {"return", "done"} /\ cached_result = NoValue
            /\ llm_outcome \in {"no_client", "service_error", "timeout",
                                "malformed"}) =>
        /\ cache_key \in CachedKeys
        /\ CachedValue(cache_key) = final_intel
        /\ \A f \in Fields : Range(final_intel[f]) = Range(regex_intel[f])
    /\ (ex_pc = "done" /\ cached_result # NoValue
            /\ llm_failed_for[cache_key]) =>
        /\ "llm" \notin Range(ex_trace)
        /\ llm_outcome = "none"
        /\ ex_ret = CachedValue(cache_key)
        /\ \E r \in _extract_with_regex(ex_message) :
              \A f \in Fields : Range(ex_ret[f]) = Range(r[f])

\* C38 witness: a third call, after a call with another message, returned
\* from the cache the handle that the first call's regex pass found when
\* its LLM pass failed.
C38_Witness ==
    /\ ex_pc = "done"
    /\ ex_calls = 3
    /\ cached_result # NoValue
    /\ llm_failed_for[cache_key]
    /\ Len(set_log) = 2
    /\ ex_ret.upiIds = <<"first@paytm">>

\* C39: set(key, value) for a key that is already cached only replaces that
\* key's value: it removes no other key and does not reduce the number of
\* entries, also when the cache is at capacity.
C39_SetOfCachedKeyOnlyReplaces ==
    [][(/\ Len(set_log') = Len(set_log) + 1
        /\ set_log'[Len(set_log')] \in CachedKeys) =>
            /\ {cache'[i].key : i \in 1..Len(cache')} = CachedKeys
            /\ Len(cache') = Len(cache)]_vars
====
